---- MODULE Spec2Model ----
(***************************************************************************)
(* Driver-monitoring backend (manobela): the stateful signal detectors,    *)
(* the metric orchestrator and the metric-record reduction of the batch    *)
(* aggregation engine, modelled as state machines.                         *)
(*                                                                         *)
(* Floats are modelled as exact rationals <<n, d>> (d > 0, lowest terms);  *)
(* Python's None for an optional float is the pair <<0, 0>>.               *)
(***************************************************************************)
EXTENDS Integers, Sequences, FiniteSets, TLC

\* ------------------------------------------------------------------ bounds

\* Frames fed to one detector instance in one behaviour.
MaxFrames == 6
\* reset() calls in one behaviour.
MaxResets == 1
\* EyeClosureMetric.window_size, in frames (window_sec * target_fps).
WindowSize == 3
\* EyeClosureMetric._min_eye_closed_duration_frames.
MinEyeFrames == 2
\* YawnMetric._min_yawn_duration_frames.
MinYawnFrames == 2
\* HeadPoseMetric.min_sustained_frames, calibration_frames and
\* missing_reset_frames (each max(1, int(seconds * target_fps))).
MinSustainedFrames == 2
CalibrationFrames == 3
MissingResetFrames == 2
\* PhoneUsageMetric._min_usage_frames and _max_missed_frames.
MinUsageFrames == 2
MaxMissedFrames == 1

\* ------------------------------------------------------- rational numbers

RECURSIVE Gcd(_, _)
Gcd(a, b) == IF b = 0 THEN a ELSE Gcd(b, a % b)

Abs(x) == IF x < 0 THEN -x ELSE x

None == <<0, 0>>
IsNone(x) == x[2] = 0

R(n, d) ==
    LET g == IF n = 0 THEN Abs(d) ELSE Gcd(Abs(n), Abs(d))
        s == IF d < 0 THEN -1 ELSE 1
    IN  <<(s * n) \div g, (s * d) \div g>>

RAdd(a, b) ==
    LET g == Gcd(a[2], b[2])
    IN  R(a[1] * (b[2] \div g) + b[1] * (a[2] \div g), a[2] * (b[2] \div g))
RNeg(a) == <<-a[1], a[2]>>
RSub(a, b) == RAdd(a, RNeg(b))
RMul(a, b) ==
    LET g1 == Gcd(Abs(a[1]), b[2])
        g2 == Gcd(Abs(b[1]), a[2])
    IN  R((a[1] \div g1) * (b[1] \div g2), (a[2] \div g2) * (b[2] \div g1))

\* p/q <= r/s for q, s > 0, by integer parts and then the remainders'
\* reciprocals (no cross product, so no overflow).
RECURSIVE FracLe(_, _, _, _)
FracLe(p, q, r, s) ==
    LET ip == p \div q
        ir == r \div s
        rp == p % q
        rr == r % s
    IN  IF ip # ir THEN ip < ir
        ELSE IF rp = 0 THEN TRUE
        ELSE IF rr = 0 THEN FALSE
        ELSE FracLe(s, rr, q, rp)

RLe(a, b) == FracLe(a[1], a[2], b[1], b[2])
RLt(a, b) == ~RLe(b, a)
RMin(a, b) == IF RLe(a, b) THEN a ELSE b
ROne == <<1, 1>>
RZero == <<0, 1>>

\* ---------------------------------------------------------------- Smoother

\* Smoother.__init__: no value yet, no missing input yet.
SmootherInit == [last |-> None, missing |-> 0]

\* SmootherUpdate keeping the stored value when the gap got too long.
SmootherUpdateKeepsStale(sm, alpha, max_missing, v) ==
    IF ~IsNone(v)
    THEN IF IsNone(sm.last)
         THEN [s |-> [last |-> v, missing |-> 0], r |-> v]
         ELSE [s |-> [last |-> RAdd(RMul(alpha, v),
                                    RMul(RSub(ROne, alpha), sm.last)),
                      missing |-> 0],
               r |-> RAdd(RMul(alpha, v), RMul(RSub(ROne, alpha), sm.last))]
    ELSE IF sm.missing + 1 <= max_missing
         THEN [s |-> [sm EXCEPT !.missing = sm.missing + 1], r |-> sm.last]
         ELSE [s |-> [sm EXCEPT !.missing = sm.missing + 1], r |-> None]

\* Smoother.update on one scalar; v = None is a missing input.
\* Returns the new smoother state s and the returned value r.
SmootherUpdate(sm, alpha, max_missing, v) ==
    IF ~IsNone(v)
    THEN IF IsNone(sm.last)
         THEN [s |-> [last |-> v, missing |-> 0], r |-> v]
         ELSE LET smoothed == RAdd(RMul(alpha, v),
                                   RMul(RSub(ROne, alpha), sm.last))
              IN  [s |-> [last |-> smoothed, missing |-> 0], r |-> smoothed]
    ELSE IF sm.missing + 1 <= max_missing
         THEN [s |-> [sm EXCEPT !.missing = sm.missing + 1], r |-> sm.last]
         ELSE [s |-> [last |-> None, missing |-> sm.missing + 1], r |-> None]

\* Smoother.reset
SmootherReset(sm) == [last |-> None, missing |-> 0]

\* max_missing=3 passed by the detectors to their smoothers.
DetectorMaxMissing == 3

\* ------------------------------------------------------- EyeClosureMetric

\* DEFAULT_EAR_THRESHOLD = 0.15, DEFAULT_EAR_HYSTERESIS_RATIO = 0.9.
ear_threshold_open == R(15, 100)
ear_threshold_close == RMul(ear_threshold_open, R(9, 10))
\* DEFAULT_PERCLOS_THRESHOLD = 0.4, DEFAULT_SMOOTHER_ALPHA = 0.6.
perclos_threshold == R(4, 10)
EyeAlpha == R(6, 10)

EyeInit ==
    [dur |-> 0, closed |-> FALSE, history |-> << >>, sm |-> SmootherInit]

\* EyeClosureMetric._perclos: fraction of True flags in the window.
Perclos(history) ==
    IF Len(history) = 0 THEN RZero
    ELSE R(Cardinality({i \in 1..Len(history) : history[i]}), Len(history))

\* EyeClosureMetric._calc_sustained
EyeSustained(s) == RMin(R(s.dur, MinEyeFrames), ROne)

\* EyeOutput reporting no alert whenever there is no measurement.
EyeOutputDropsAlert(s, ear) ==
    [ear |-> ear, eye_closed |-> s.closed /\ ~IsNone(ear),
     eye_closed_sustained |-> EyeSustained(s),
     perclos |-> Perclos(s.history),
     perclos_alert |-> RLe(perclos_threshold, Perclos(s.history))]

\* The output dict of EyeClosureMetric.update for state s and measured ear.
EyeOutput(s, ear) ==
    [ear |-> ear, eye_closed |-> s.closed,
     eye_closed_sustained |-> EyeSustained(s),
     perclos |-> Perclos(s.history),
     perclos_alert |-> RLe(perclos_threshold, Perclos(s.history))]

\* DequeAppend dropping the new element once the deque is full.
DequeAppendKeepsOldest(q, x, maxlen) ==
    IF Len(q) < maxlen THEN Append(q, x) ELSE q

\* deque(maxlen=window_size).append
DequeAppend(q, x, maxlen) ==
    IF Len(q) < maxlen THEN Append(q, x) ELSE Append(Tail(q), x)

\* compute_ear of utils/ear.py for an eye whose landmark list is too short
\* for its indices or whose corner distance C is 0.
DegenerateEar == RZero

\* average_ear of utils/ear.py from the two eyes' compute_ear values.
AverageEar(left_ear, right_ear) == RMul(RAdd(left_ear, right_ear), R(1, 2))

\* raw_ear of a frame with landmarks: f.k = "val" carries it as f.v;
\* f.k = "deg" is a frame whose landmarks are too few or degenerate for
\* both eyes.
RawEar(f) ==
    IF f.k = "deg" THEN AverageEar(DegenerateEar, DegenerateEar) ELSE f.v

\* EyeCounter with the open-threshold branch forgetting to zero the counter.
EyeCounterKeepsCount(s, ear) ==
    LET s1 == IF RLe(ear, ear_threshold_close)
              THEN [s EXCEPT !.dur = s.dur + 1]
              ELSE IF RLe(ear_threshold_open, ear)
                   THEN [s EXCEPT !.closed = FALSE]
                   ELSE s
    IN  IF s1.dur >= MinEyeFrames THEN [s1 EXCEPT !.closed = TRUE] ELSE s1

\* EyeCounter with a single threshold: any EAR above close clears the flag.
EyeCounterNoBand(s, ear) ==
    LET s1 == IF RLe(ear, ear_threshold_close)
              THEN [s EXCEPT !.dur = s.dur + 1]
              ELSE [s EXCEPT !.dur = 0, !.closed = FALSE]
    IN  IF s1.dur >= MinEyeFrames THEN [s1 EXCEPT !.closed = TRUE] ELSE s1

\* The counter/flag update of EyeClosureMetric.update on a smoothed EAR.
EyeCounter(s, ear) ==
    LET s1 == IF RLe(ear, ear_threshold_close)
              THEN [s EXCEPT !.dur = s.dur + 1]
              ELSE IF RLe(ear_threshold_open, ear)
                   THEN [s EXCEPT !.dur = 0, !.closed = FALSE]
                   ELSE s
    IN  IF s1.dur >= MinEyeFrames THEN [s1 EXCEPT !.closed = TRUE] ELSE s1

\* EyeClosureMetric.update. f.k = "none": no landmarks; "bad": average_ear
\* raises IndexError/ZeroDivisionError; "val": average_ear returns f.v.
EyeUpdate(s, f) ==
    IF f.k = "none" \/ f.k = "bad"
    THEN [st |-> s, out |-> EyeOutput(s, None)]
    ELSE LET u == SmootherUpdate(s.sm, EyeAlpha, DetectorMaxMissing,
                                 RawEar(f))
             s0 == [s EXCEPT !.sm = u.s]
         IN  IF IsNone(u.r)
             THEN [st |-> s0, out |-> EyeOutput(s0, None)]
             ELSE LET s1 == EyeCounter(s0, u.r)
                      s2 == [s1 EXCEPT !.history =
                                DequeAppend(s1.history,
                                            RLe(u.r, ear_threshold_close),
                                            WindowSize)]
                  IN  [st |-> s2, out |-> EyeOutput(s2, u.r)]

\* EyeClosureMetric.reset: only the smoother and the history are cleared.
EyeReset(s) == [s EXCEPT !.sm = SmootherReset(s.sm), !.history = << >>]

\* ------------------------------------------------------------- YawnMetric

\* DEFAULT_MAR_THRESHOLD = 0.6, DEFAULT_HYSTERESIS_RATIO = 0.9.
mar_threshold_open == R(6, 10)
mar_threshold_close == RMul(mar_threshold_open, R(9, 10))
\* DEFAULT_SMOOTHER_ALPHA = 0.7.
YawnAlpha == R(7, 10)

YawnInit ==
    [frames_processed |-> 0, dur |-> 0, active |-> FALSE, events |-> 0,
     sm |-> SmootherInit]

\* YawnMetric._calc_sustained
YawnSustained(s) == RMin(R(s.dur, MinYawnFrames), ROne)

\* The output dict of YawnMetric.update for state s and measured mar.
YawnOutput(s, mar) ==
    [mar |-> mar, yawning |-> s.active,
     yawn_sustained |-> YawnSustained(s), yawn_count |-> s.events]

\* YawnCounter counting an event on every frame at or below close.
YawnCounterCountsAll(s, mar) ==
    LET s1 == IF RLe(mar_threshold_open, mar)
              THEN [s EXCEPT !.dur = s.dur + 1]
              ELSE IF RLe(mar, mar_threshold_close)
                   THEN [s EXCEPT !.events = s.events + 1,
                                  !.dur = 0, !.active = FALSE]
                   ELSE s
    IN  IF s1.dur >= MinYawnFrames THEN [s1 EXCEPT !.active = TRUE] ELSE s1

\* The counter/flag/event update of YawnMetric.update on a smoothed MAR.
YawnCounter(s, mar) ==
    LET s1 == IF RLe(mar_threshold_open, mar)
              THEN [s EXCEPT !.dur = s.dur + 1]
              ELSE IF RLe(mar, mar_threshold_close)
                   THEN [s EXCEPT
                            !.events = IF s.active THEN s.events + 1
                                       ELSE s.events,
                            !.dur = 0, !.active = FALSE]
                   ELSE s
    IN  IF s1.dur >= MinYawnFrames THEN [s1 EXCEPT !.active = TRUE] ELSE s1

\* YawnMetric.update. f.k = "none": no landmarks; "bad": compute_mar raises;
\* "val": compute_mar returns f.v (None when the landmarks are insufficient
\* or the mouth width is degenerate).
YawnUpdate(s, f) ==
    LET sp == [s EXCEPT !.frames_processed = s.frames_processed + 1]
    IN  IF f.k = "none" \/ f.k = "bad"
        THEN [st |-> sp, out |-> YawnOutput(sp, None)]
        ELSE LET u == SmootherUpdate(sp.sm, YawnAlpha, DetectorMaxMissing, f.v)
                 s0 == [sp EXCEPT !.sm = u.s]
             IN  IF IsNone(u.r)
                 THEN [st |-> s0, out |-> YawnOutput(s0, None)]
                 ELSE LET s1 == YawnCounter(s0, u.r)
                      IN  [st |-> s1, out |-> YawnOutput(s1, u.r)]

\* YawnMetric.reset: counters, flag, event count and smoother; the
\* processed-frame count is kept.
YawnReset(s) ==
    [s EXCEPT !.dur = 0, !.active = FALSE, !.events = 0,
              !.sm = SmootherReset(s.sm)]

\* --------------------------------------------------------- HeadPoseMetric

\* DEFAULT_YAW_THRESHOLD, DEFAULT_PITCH_THRESHOLD, DEFAULT_ROLL_THRESHOLD
\* in degrees, indexed yaw = 1, pitch = 2, roll = 3.
HeadThreshold == <<R(45, 1), R(20, 1), R(25, 1)>>
Axes == 1..3
NoAngles == <<None, None, None>>

HeadInit ==
    [counter |-> <<0, 0, 0>>, state |-> <<FALSE, FALSE, FALSE>>,
     baseline |-> NoAngles, baseline_sum |-> <<RZero, RZero, RZero>>,
     baseline_count |-> 0, missing_frames |-> 0]

\* HeadPoseMetric._reset_alert_state
HeadResetAlertState(s) ==
    [s EXCEPT !.counter = <<0, 0, 0>>, !.state = <<FALSE, FALSE, FALSE>>]

\* reset_baseline keeping the calibration sums and count gathered so far.
HeadResetBaselineKeepsSums(s) ==
    [HeadResetAlertState(s) EXCEPT !.baseline = NoAngles, !.missing_frames = 0]

\* HeadPoseMetric.reset_baseline
HeadResetBaseline(s) ==
    [HeadResetAlertState(s) EXCEPT
        !.baseline = NoAngles, !.baseline_sum = <<RZero, RZero, RZero>>,
        !.baseline_count = 0, !.missing_frames = 0]

\* HeadPoseMetric.reset
HeadReset(s) == HeadResetBaseline(s)

Max3(t) ==
    LET m == IF t[1] >= t[2] THEN t[1] ELSE t[2]
    IN  IF m >= t[3] THEN m ELSE t[3]

\* HeadPoseMetric._build_output (with _calc_sustained)
HeadOutput(s, angles, rel, calibrating) ==
    [angles |-> angles, alert |-> s.state, rel |-> rel,
     calibrating |-> calibrating,
     head_pose_sustained |->
        RMin(R(Max3(s.counter), MinSustainedFrames), ROne)]

RAbs(a) == <<Abs(a[1]), a[2]>>

\* HeadDebounce with one deviation test for the whole pose: every axis
\* counts as deviating when any axis is.
HeadDebounceAnyAxis(s, angles) ==
    LET rel == [i \in Axes |-> RSub(angles[i], s.baseline[i])]
        any == \E j \in Axes : RLt(HeadThreshold[j], RAbs(rel[j]))
        cnt == [i \in Axes |-> IF any THEN s.counter[i] + 1 ELSE 0]
        st == [i \in Axes |-> any /\ (cnt[i] >= MinSustainedFrames \/ s.state[i])]
        s1 == [s EXCEPT !.counter = cnt, !.state = st]
    IN  [st |-> s1, out |-> HeadOutput(s1, angles, rel, FALSE)]

\* The deviation test, debounce counters and alert states of
\* HeadPoseMetric.update once a baseline exists.
HeadDebounce(s, angles) ==
    LET rel == [i \in Axes |-> RSub(angles[i], s.baseline[i])]
        dev == [i \in Axes |-> RLt(HeadThreshold[i], RAbs(rel[i]))]
        cnt == [i \in Axes |-> IF dev[i] THEN s.counter[i] + 1 ELSE 0]
        st1 == [i \in Axes |->
                  IF cnt[i] >= MinSustainedFrames THEN TRUE ELSE s.state[i]]
        st2 == [i \in Axes |-> IF ~dev[i] THEN FALSE ELSE st1[i]]
        s1 == [s EXCEPT !.counter = cnt, !.state = st2]
    IN  [st |-> s1, out |-> HeadOutput(s1, angles, rel, FALSE)]

\* StillCalibrating off by one: the frame that completes the count still
\* reports calibrating.
StillCalibratingInclusive(s) == s.baseline_count <= CalibrationFrames

\* The test of HeadPoseMetric.update, after the frame was added to the
\* baseline sums, for "the baseline is not complete yet".
StillCalibrating(s) == s.baseline_count < CalibrationFrames

\* HeadPoseMetric.update. f.k = "none": no landmarks; "bad": the angle
\* computation raises; "val": the angles f.a = <<yaw, pitch, roll>>.
HeadUpdate(s, f) ==
    IF f.k = "none"
    THEN LET s1 == [s EXCEPT !.missing_frames = s.missing_frames + 1]
             s2 == IF s1.missing_frames >= MissingResetFrames
                   THEN HeadResetBaseline(s1) ELSE s1
         IN  [st |-> s2,
              out |-> HeadOutput(s2, NoAngles, NoAngles,
                                 IsNone(s2.baseline[1]))]
    ELSE
    LET s0 == [s EXCEPT !.missing_frames = 0]
    IN  IF f.k = "bad"
        THEN [st |-> s0,
              out |-> HeadOutput(s0, NoAngles, NoAngles,
                                 IsNone(s0.baseline[1]))]
        ELSE IF IsNone(s0.baseline[1])
             THEN LET s1 == [s0 EXCEPT
                               !.baseline_sum =
                                  [i \in Axes |->
                                     RAdd(s0.baseline_sum[i], f.a[i])],
                               !.baseline_count = s0.baseline_count + 1]
                  IN  IF StillCalibrating(s1)
                      THEN LET s2 == HeadResetAlertState(s1)
                           IN  [st |-> s2,
                                out |-> HeadOutput(s2, f.a, NoAngles, TRUE)]
                      ELSE HeadDebounce(
                              [s1 EXCEPT !.baseline =
                                 [i \in Axes |->
                                    RMul(s1.baseline_sum[i],
                                         R(1, s1.baseline_count))]],
                              f.a)
             ELSE HeadDebounce(s0, f.a)

\* ------------------------------------------------------- PhoneUsageMetric

\* PHONE_CLASS_ID = 67 (COCO), DEFAULT_CONF = 0.5.
PHONE_CLASS_ID == 67
PhoneConf == R(5, 10)

PhoneInit == [usage |-> 0, miss |-> 0, active |-> FALSE]

\* PhoneUsageMetric._build_output (with _calc_sustained)
PhoneOutput(s) ==
    [phone_usage |-> s.active,
     phone_usage_sustained |-> RMin(R(s.usage, MinUsageFrames), ROne)]

\* phone_detected of PhoneUsageMetric.update for the detection list d, a
\* sequence of [conf, class_id] records (empty when object_detections is
\* None or []).
PhoneDetected(d) ==
    \E i \in 1..Len(d) :
        RLe(PhoneConf, d[i].conf) /\ d[i].class_id = PHONE_CLASS_ID

\* PhoneMiss that clears the usage counter and leaves the alert on.
PhoneMissKeepsAlert(s) ==
    IF s.miss + 1 > MaxMissedFrames
    THEN [s EXCEPT !.usage = 0, !.miss = 0]
    ELSE [s EXCEPT !.miss = s.miss + 1]

\* PhoneMiss resetting as soon as the miss counter reaches the limit.
PhoneMissResetsEarly(s) ==
    IF s.miss + 1 >= MaxMissedFrames
    THEN [s EXCEPT !.usage = 0, !.active = FALSE, !.miss = 0]
    ELSE [s EXCEPT !.miss = s.miss + 1]

\* The branch of PhoneUsageMetric.update for a frame without a phone.
PhoneMiss(s) ==
    IF s.miss + 1 > MaxMissedFrames
    THEN [s EXCEPT !.usage = 0, !.active = FALSE, !.miss = 0]
    ELSE [s EXCEPT !.miss = s.miss + 1]

\* PhoneUsageMetric.update on the frame's detection list f.d.
PhoneUpdate(s, f) ==
    LET s1 == IF PhoneDetected(f.d)
              THEN [s EXCEPT
                      !.usage = IF s.usage + 1 <= MinUsageFrames
                                THEN s.usage + 1 ELSE MinUsageFrames,
                      !.miss = 0]
              ELSE PhoneMiss(s)
        s2 == IF s1.usage >= MinUsageFrames
              THEN [s1 EXCEPT !.active = TRUE] ELSE s1
    IN  [st |-> s2, out |-> PhoneOutput(s2)]

\* PhoneUsageMetric.reset
PhoneReset(s) == [usage |-> 0, miss |-> 0, active |-> FALSE]

\* ------------------------------------------------------------ GazeMetric

\* GazeMetric.min_sustained_frames.
MinGazeFrames == 2

\* DEFAULT_HORIZONTAL_RANGE = DEFAULT_VERTICAL_RANGE = (0.35, 0.65).
horizontal_range == <<R(35, 100), R(65, 100)>>
vertical_range == <<R(35, 100), R(65, 100)>>

\* A gaze ratio is the pair <<horizontal, vertical>>; Python's None for an
\* eye without a computable ratio is the pair of two Nones.
NoRatio == <<None, None>>
HasRatio(ratio) == ~IsNone(ratio[1])

GazeInit ==
    [sustained_out_of_range_frames |-> 0, gaze_alert_state |-> FALSE]

\* in_range of utils/calc.py: "none" for a None value, else whether the
\* value lies in the closed range.
InRange(val, rng) ==
    IF IsNone(val) THEN "none"
    ELSE IF RLe(rng[1], val) /\ RLe(val, rng[2]) THEN "true" ELSE "false"

\* all(v is True for v in checks if v is not None)
AllPresentTrue(checks) ==
    \A i \in 1..Len(checks) : checks[i] # "none" => checks[i] = "true"

\* The decision of gaze_metric.py GazeMetric.update for the two eye ratios:
\* "none" (no result) when neither eye has a ratio.
GazeMetricOnRoad(left_ratio, right_ratio) ==
    IF ~HasRatio(left_ratio) /\ ~HasRatio(right_ratio) THEN "none"
    ELSE IF /\ AllPresentTrue(<<InRange(left_ratio[1], horizontal_range),
                                InRange(right_ratio[1], horizontal_range)>>)
            /\ AllPresentTrue(<<InRange(left_ratio[2], vertical_range),
                                InRange(right_ratio[2], vertical_range)>>)
         THEN "true" ELSE "false"

\* gaze_on_road of gaze.py GazeMetric.update for the two smoothed ratios.
GazeOnRoad(left_ratio, right_ratio) ==
    IF ~HasRatio(left_ratio) /\ ~HasRatio(right_ratio) THEN FALSE
    ELSE /\ AllPresentTrue(<<InRange(left_ratio[1], horizontal_range),
                             InRange(right_ratio[1], horizontal_range)>>)
         /\ AllPresentTrue(<<InRange(left_ratio[2], vertical_range),
                             InRange(right_ratio[2], vertical_range)>>)

\* GazeMetric._calc_sustained and the returned dict.
GazeOutput(s) ==
    [gaze_alert |-> s.gaze_alert_state,
     gaze_sustained |->
        RMin(R(s.sustained_out_of_range_frames, MinGazeFrames), ROne)]

\* GazeCounter keeping a raised alert on an on-range frame.
GazeCounterLatches(s, gaze_on_road) ==
    LET s1 == IF ~gaze_on_road
              THEN [s EXCEPT !.sustained_out_of_range_frames = @ + 1]
              ELSE [s EXCEPT !.sustained_out_of_range_frames = 0]
    IN  IF s1.sustained_out_of_range_frames >= MinGazeFrames
        THEN [s1 EXCEPT !.gaze_alert_state = TRUE] ELSE s1

\* The off-range counter and alert update of gaze.py GazeMetric.update.
GazeCounter(s, gaze_on_road) ==
    LET s1 == IF ~gaze_on_road
              THEN [s EXCEPT !.sustained_out_of_range_frames = @ + 1]
              ELSE [s EXCEPT !.sustained_out_of_range_frames = 0,
                             !.gaze_alert_state = FALSE]
    IN  IF s1.sustained_out_of_range_frames >= MinGazeFrames
        THEN [s1 EXCEPT !.gaze_alert_state = TRUE] ELSE s1

GazeResult(s) == [st |-> s, out |-> GazeOutput(s)]

\* gaze.py GazeMetric.update. f.k = "none": no landmarks; "bad": a ratio
\* computation raises IndexError/ZeroDivisionError; "val": f.l and f.r are
\* left_ratio and right_ratio, what the eye's SequenceSmoother returned for
\* its raw ratio, or NoRatio for an eye without a raw ratio. The smoothers
\* are not part of the state: any ratio may come out of them.
GazeUpdate(s, f) ==
    IF f.k = "none" \/ f.k = "bad"
    THEN GazeResult(s)
    ELSE GazeResult(GazeCounter(s, GazeOnRoad(f.l, f.r)))

\* GazeMetric.reset
GazeReset(s) == GazeInit

\* ==================================================== metric-record reduction

\* A metric value is a tagged record: t is its Python type ("null", "bool",
\* "int", "float", "str", "arr", "obj"), b the boolean, q the number (or the
\* identity of a string), a the list elements, o the nested dict. A dict is a
\* function from its keys to values. A key is a sequence of name tokens, so
\* that key.endswith("_alert") is a test of its last token.
Val(t, b, q, a, o) == [t |-> t, b |-> b, q |-> q, a |-> a, o |-> o]
VNull == Val("null", FALSE, RZero, << >>, << >>)
VBool(x) == Val("bool", x, RZero, << >>, << >>)
VInt(n) == Val("int", FALSE, R(n, 1), << >>, << >>)
VFloat(q) == Val("float", FALSE, q, << >>, << >>)
VStr(i) == Val("str", FALSE, R(i, 1), << >>, << >>)
VArr(a) == Val("arr", FALSE, RZero, a, << >>)
VObj(o) == Val("obj", FALSE, RZero, << >>, o)

\* _is_int, _is_numeric, _is_numeric_array, isinstance(value, bool/dict)
IsInt(v) == v.t = "int"
IsNumeric(v) == v.t \in {"int", "float"}
IsNumericArray(v) == v.t = "arr" /\ \A i \in 1..Len(v.a) : IsNumeric(v.a[i])
IsBool(v) == v.t = "bool"
IsDict(v) == v.t = "obj"

\* key.endswith("_alert")
EndsWithAlert(key) == Len(key) > 0 /\ key[Len(key)] = "_alert"

All(values, P(_)) == \A i \in 1..Len(values) : P(values[i])

\* [obj[key] for obj in objects if key in obj and obj[key] is not None]
ValuesOf(objects, key) ==
    LET has == SelectSeq(objects,
                         LAMBDA h : key \in DOMAIN h /\ h[key].t # "null")
    IN  [i \in 1..Len(has) |-> has[i][key]]

\* _aggregate_boolean with the any() forgotten: the latest frame wins.
AggregateBooleanLast(values) ==
    IF values = << >> THEN VBool(FALSE) ELSE values[Len(values)]

\* _aggregate_boolean
AggregateBoolean(values) ==
    IF \E i \in 1..Len(values) : values[i].b THEN VBool(TRUE)
    ELSE IF values # << >> THEN values[Len(values)] ELSE VBool(FALSE)

RECURSIVE SumQ(_)
SumQ(values) ==
    IF values = << >> THEN RZero
    ELSE RAdd(Head(values).q, SumQ(Tail(values)))

RECURSIVE MaxQ(_)
MaxQ(values) ==
    IF Len(values) = 1 THEN values[1].q
    ELSE LET m == MaxQ(Tail(values))
         IN  IF RLt(m, Head(values).q) THEN Head(values).q ELSE m

\* max(values) over integers
MaxInt(values) == Val("int", FALSE, MaxQ(values), << >>, << >>)

\* The mean with floor division (sum(values) // len(values)).
MeanFloorDiv(values) ==
    LET q == RMul(SumQ(values), R(1, Len(values)))
    IN  VFloat(R(q[1] \div q[2], 1))

\* sum(values) / len(values)
Mean(values) == VFloat(RMul(SumQ(values), R(1, Len(values))))

\* _aggregate_numeric_array counting every array, also the skipped ones.
AggregateNumericArrayCountsAll(values) ==
    IF values = << >> THEN VNull
    ELSE LET length == Len(values[1].a)
             same == SelectSeq(values, LAMBDA v : Len(v.a) = length)
         IN  VArr([i \in 1..length |->
                    VFloat(RMul(SumQ([j \in 1..Len(same) |-> same[j].a[i]]),
                               R(1, Len(values))))])

\* _aggregate_numeric_array
AggregateNumericArray(values) ==
    IF values = << >> THEN VNull
    ELSE LET length == Len(values[1].a)
             same == SelectSeq(values, LAMBDA v : Len(v.a) = length)
             count == Len(same)
         IN  IF count = 0 THEN VNull
             ELSE VArr([i \in 1..length |->
                         VFloat(RMul(SumQ([j \in 1..count |-> same[j].a[i]]),
                                    R(1, count)))])

KeysOf(objects) == UNION {DOMAIN objects[i] : i \in 1..Len(objects)}

\* _aggregate_metrics_object of video_aggregation.py
RECURSIVE AggregateMetricsObject(_)
AggregateMetricsObject(objects) ==
    LET present == {k \in KeysOf(objects) : ValuesOf(objects, k) # << >>}
        reduce(key) ==
            LET values == ValuesOf(objects, key)
            IN  IF EndsWithAlert(key)
                THEN LET bools == SelectSeq(values, IsBool)
                     IN  IF bools # << >> THEN AggregateBoolean(bools)
                         ELSE values[Len(values)]
                ELSE IF All(values, IsInt) THEN MaxInt(values)
                ELSE IF All(values, IsNumeric) THEN Mean(values)
                ELSE IF All(values, IsBool) THEN AggregateBoolean(values)
                ELSE IF All(values, IsNumericArray)
                     THEN AggregateNumericArray(SelectSeq(values,
                                                LAMBDA v : v.t = "arr"))
                ELSE IF All(values, IsDict)
                     THEN VObj(AggregateMetricsObject(
                                [i \in 1..Len(values) |-> values[i].o]))
                ELSE values[Len(values)]
    IN  [key \in present |-> reduce(key)]

\* _aggregate_metrics_object of video_upload_processor.py, the reduction
\* process_uploaded_video applies: no integer rule.
RECURSIVE UploadAggregateMetricsObject(_)
UploadAggregateMetricsObject(objects) ==
    LET present == {k \in KeysOf(objects) : ValuesOf(objects, k) # << >>}
        reduce(key) ==
            LET values == ValuesOf(objects, key)
            IN  IF EndsWithAlert(key)
                THEN LET bools == SelectSeq(values, IsBool)
                     IN  IF bools # << >> THEN AggregateBoolean(bools)
                         ELSE values[Len(values)]
                ELSE IF All(values, IsNumeric) THEN Mean(values)
                ELSE IF All(values, IsBool) THEN AggregateBoolean(values)
                ELSE IF All(values, IsNumericArray)
                     THEN AggregateNumericArray(SelectSeq(values,
                                                LAMBDA v : v.t = "arr"))
                ELSE IF All(values, IsDict)
                     THEN VObj(UploadAggregateMetricsObject(
                                [i \in 1..Len(values) |-> values[i].o]))
                ELSE values[Len(values)]
    IN  [key \in present |-> reduce(key)]

\* ====================================================== detector sessions

VARIABLES
    unit,       \* which detector class this behaviour exercises
    det,        \* the instance under test
    twin,       \* a freshly constructed instance of the same class
    compare,    \* TRUE once det was reset and twin is fed the same frames
    out,        \* what det's last update returned
    twinOut,    \* what twin's last update returned
    op,         \* the last operation: "init", "update" or "reset"
    inp,        \* the frame of the last update
    pre,        \* det before the last operation
    nframes,    \* updates so far
    nresets,    \* resets so far
    qual,       \* eye/yawn: qualifying valid frames since the last valid
                \* frame beyond the opposite threshold
    run,        \* eye/yawn: qualifying valid frames since the last
                \* non-qualifying valid frame
    valid,      \* head pose: valid frames since the last baseline reset
    flags       \* eye closure: for every update since construction or
                \* reset() that obtained an EAR, oldest first, whether it
                \* was at or below the close threshold

detVars == <<unit, det, twin, compare, out, twinOut, op, inp, pre,
             nframes, nresets, qual, run, valid, flags>>

VARIABLES
    mgrOutcomes,  \* what each registered metric did on the last frame
    mgrResults,   \* the record MetricManager.update returned for it
    mgrCalls      \* the metrics it called, in call order

mgrVars == <<mgrOutcomes, mgrResults, mgrCalls>>

VARIABLES
    bucketMetrics,    \* bucket.metrics: the per-frame metric records
    finalized,        \* the bucket was finalized
    aggregate,        \* aggregate_metrics of video_aggregation.py
    uploadAggregate   \* aggregate_metrics of video_upload_processor.py

aggVars == <<bucketMetrics, finalized, aggregate, uploadAggregate>>

VARIABLES
    unique,      \* bucket.detections: key -> the detection kept for it
    seen,        \* the detections passed to update_detections so far
    dedupCalls   \* update_detections calls so far

dedupVars == <<unique, seen, dedupCalls>>

VARIABLES
    upState,             \* process_uploaded_video: "new", "decoding",
                         \* "returned" or "raised"
    upError,             \* the exception it ended with, or "none"
    upResult,            \* the groups it returned (their bucket_index and
                         \* frame_count), or NoResult
    source_fps,          \* TRUE iff the container reports a frame rate
    last_timestamp_sec,
    next_target_time,
    frame_number,
    current_bucket,      \* << >> for None, else <<the open bucket>>
    groups,
    decoded,             \* frames read from the capture so far
    processedIdx,        \* bucket index of every processed frame, in order
    exceeded             \* the reported duration or a decoded timestamp
                         \* was above max_duration_sec

upVars == <<upState, upError, upResult, source_fps, last_timestamp_sec,
            next_target_time, frame_number, current_bucket, groups,
            decoded, processedIdx, exceeded>>

VARIABLES
    procState,          \* where process_video_frames is suspended: "start",
                        \* "get", "retry_sleep", "executor", "send_sleep",
                        \* "err_sleep", "finally", or "done"
    readerState,        \* where _read_frames is suspended: "none" (not
                        \* created), "start", "recv", "sleep", or "done"
    procCancel,         \* task.cancel() was called on the processing task
    readerCancel,       \* reader_task.cancel() was called
    exitReason,         \* why the processing loop was left
    stopSet,            \* stop_processing.is_set()
    peerPresent,        \* client_id in connection_manager.peer_connections
    slot,               \* frame_queue, oldest first
    inflight,           \* the frame being processed in the executor
    arrived,            \* frames received from the track so far; frames
                        \* are numbered in arrival order
    clock,              \* time.perf_counter(), in ticks
    last_process_time,
    data_channel_retries,
    dropped_messages,
    processed_frames,
    sentFrames,         \* frames whose result was sent
    pulls               \* every frame pulled from frame_queue: the frame,
                        \* the newest frame received by then, the time,
                        \* what the loop did with it, and whether it met
                        \* a buffered amount over the limit

liveVars == <<procState, readerState, procCancel, readerCancel, exitReason,
              stopSet, peerPresent, slot, inflight, arrived, clock,
              last_process_time, data_channel_retries, dropped_messages,
              processed_frames, sentFrames, pulls>>

VARIABLES
    active_connections,     \* client id -> websocket, 0 where absent; the
                            \* websocket of the n-th connect is numbered n
    peer_connections,       \* the client ids that have a peer connection
    data_channels,          \* the client ids that have a data channel
    frame_tasks,            \* client id -> frame task, 0 where absent; the
                            \* task of the n-th session is numbered n
    processing_paused,      \* the client ids with an entry (always False)
    processing_reset,       \* the client ids with an entry (always False)
    session_started_at,     \* client id -> start time, -1 where absent
    session_expiry_tasks,   \* client id -> expiry task, 0 where absent; the
                            \* task of the n-th connect is numbered n
    head_pose_recalibrate_requests,
    taskState,              \* frame task -> "none", "running", "cancelled"
                            \* (cancel() was called) or "done"
    taskOwner,              \* frame task -> the client id it was made for
    timers,                 \* expiry task -> "none", "sleeping", "cancelled"
                            \* or "done", and its client id and started_at
                            \* arguments while it sleeps
    wsCloses,               \* websocket -> who called close() on it, in order
    closeState,             \* where ConnectionManager.close is suspended:
                            \* "idle" (not called), "pcs", "wss" or "done"
    pcTodo,                 \* peer connections close() has still to close
    wsTodo,                 \* websockets close() has still to close
    sessNow,                \* time.monotonic(), in ticks
    lastOp                  \* whether the last operation on the manager was
                            \* a disconnect, and of which client id

connVars == <<active_connections, peer_connections, data_channels,
              frame_tasks, processing_paused, processing_reset,
              session_started_at, session_expiry_tasks,
              head_pose_recalibrate_requests, taskState, taskOwner, timers,
              wsCloses, closeState, pcTodo, wsTodo, sessNow, lastOp>>

VARIABLES
    landmarks_sum,      \* bucket.landmarks_sum (NoSum for None)
    landmarks_count,    \* bucket.landmarks_count
    lmSeen,             \* the smoothed landmark vector of every frame put
                        \* into the bucket, in order (<< >> for a frame
                        \* without one)
    face_landmarks,     \* what _finalize_bucket computed (NoSum for None)
    lmFinalized         \* the bucket was finalized

lmVars == <<landmarks_sum, landmarks_count, lmSeen, face_landmarks,
            lmFinalized>>

VARIABLES
    vsState,    \* a Smoother for vectors: last_value and missing_count
    vsPre,      \* vsState before the last call
    vsIn,       \* the argument of the last update
    vsOut,      \* what the last update did: returned a value or raised
    vsCalls     \* calls so far

vsVars == <<vsState, vsPre, vsIn, vsOut, vsCalls>>

VARIABLES
    pausedFlag,     \* connection_manager.processing_paused[client_id]
    resetFlag,      \* connection_manager.processing_reset[client_id]
    sess,           \* the locals of process_video_frames: counters, times,
                    \* metric_manager and smoother
    newborn,           \* a session started new at the pass that consumed the
                    \* last reset request and given the same passes since
    ctlState,       \* "top" (between passes), "executor" or "ended"
    ctlNow,         \* time.perf_counter(), in ticks
    ctlPulled,      \* frames pulled from frame_queue, numbered in order
    ctlOp,          \* the last operation, and for a pass what it met
    lastResult,     \* the last result the session sent
    twinResult,     \* the result the twin sent for the same frame
    pausedPulls,    \* the frames pulled while the paused flag was set
    handedFrames,   \* the frames handed to the detectors
    acceptTimes     \* when frames passed the pacing check, in order

ctlVars == <<pausedFlag, resetFlag, sess, newborn, ctlState, ctlNow, ctlPulled,
             ctlOp, lastResult, twinResult, pausedPulls, handedFrames,
             acceptTimes>>

VARIABLES
    worker,         \* where each executor thread is in process_video_frame
    objResult,      \* how each thread's last ObjectDetector.detect ended
    faceLock,       \* the holder of FaceLandmarker._lock, or "free"
    objLock,        \* the holder of YoloObjectDetector._lock, or "free"
    closed,         \* YoloObjectDetector._closed
    session,        \* YoloObjectDetector.session: "session" or "None"
    landmarker,     \* the MediaPipe landmarker: "open" or "closed"
    closer,         \* where the thread calling the close() methods is
    closeReturned,  \* a YoloObjectDetector.close() has returned
    ranAfterClose   \* session.run was entered after a close() had returned

infVars == <<worker, objResult, faceLock, objLock, closed, session,
             landmarker, closer, closeReturned, ranAfterClose>>

VARIABLES
    trackEnded      \* the remote track has ended: every recv() raises

trackVars == <<trackEnded>>

vars == <<detVars, mgrVars, aggVars, dedupVars, upVars, liveVars, connVars,
          lmVars, vsVars, ctlVars, infVars, trackVars>>

\* What the actions of one component leave alone.
exceptDet == <<mgrVars, aggVars, dedupVars, upVars, liveVars, connVars,
               lmVars, vsVars, ctlVars, infVars, trackVars>>
exceptMgr == <<detVars, aggVars, dedupVars, upVars, liveVars, connVars,
               lmVars, vsVars, ctlVars, infVars, trackVars>>
exceptAgg == <<detVars, mgrVars, dedupVars, upVars, liveVars, connVars,
               lmVars, vsVars, ctlVars, infVars, trackVars>>
exceptDedup == <<detVars, mgrVars, aggVars, upVars, liveVars, connVars,
                 lmVars, vsVars, ctlVars, infVars, trackVars>>
exceptUp == <<detVars, mgrVars, aggVars, dedupVars, liveVars, connVars,
              lmVars, vsVars, ctlVars, infVars, trackVars>>
exceptLive == <<detVars, mgrVars, aggVars, dedupVars, upVars, connVars,
                lmVars, vsVars, ctlVars, infVars, trackVars>>
exceptConn == <<detVars, mgrVars, aggVars, dedupVars, upVars, liveVars,
                lmVars, vsVars, ctlVars, infVars, trackVars>>
exceptLm == <<detVars, mgrVars, aggVars, dedupVars, upVars, liveVars,
              connVars, vsVars, ctlVars, infVars, trackVars>>
exceptVs == <<detVars, mgrVars, aggVars, dedupVars, upVars, liveVars,
              connVars, lmVars, ctlVars, infVars, trackVars>>
exceptCtl == <<detVars, mgrVars, aggVars, dedupVars, upVars, liveVars,
               connVars, lmVars, vsVars, infVars, trackVars>>
exceptInf == <<detVars, mgrVars, aggVars, dedupVars, upVars, liveVars,
               connVars, lmVars, vsVars, ctlVars, trackVars>>
exceptTrack == <<detVars, mgrVars, aggVars, dedupVars, upVars, liveVars,
                 connVars, lmVars, vsVars, ctlVars, infVars>>

Units == {"eye", "yawn", "head", "phone"}

\* Raw measurements a frame can carry.
EarValues == {R(10, 100), R(17, 100), R(30, 100)}
MarValues == {R(30, 100), R(40, 100), R(90, 100), None}
AngleValues == {<<R(0, 1), R(0, 1), R(0, 1)>>, <<R(60, 1), R(0, 1), R(0, 1)>>,
                <<R(0, 1), R(-30, 1), R(40, 1)>>}
DetectionLists ==
    {<< >>, <<[conf |-> R(9, 10), class_id |-> PHONE_CLASS_ID]>>,
     <<[conf |-> R(5, 10), class_id |-> PHONE_CLASS_ID]>>,
     <<[conf |-> R(3, 10), class_id |-> PHONE_CLASS_ID],
       [conf |-> R(9, 10), class_id |-> 0]>>}

NoFace == [k |-> "none"]
BadFace == [k |-> "bad"]

Frames(u) ==
    CASE u = "eye"   -> {NoFace, BadFace, [k |-> "deg"]} \cup
                        {[k |-> "val", v |-> v] : v \in EarValues}
      [] u = "yawn"  -> {NoFace, BadFace} \cup
                        {[k |-> "val", v |-> v] : v \in MarValues}
      [] u = "head"  -> {NoFace, BadFace} \cup
                        {[k |-> "val", a |-> a] : a \in AngleValues}
      [] u = "phone" -> {[k |-> "val", d |-> d] : d \in DetectionLists}
      [] u = "gaze"  -> {NoFace, BadFace} \cup
                        {[k |-> "val", l |-> l, r |-> r] :
                            l \in {NoRatio, <<R(5, 10), R(5, 10)>>,
                                   <<R(35, 100), R(65, 100)>>,
                                   <<R(9, 10), R(5, 10)>>},
                            r \in {NoRatio, <<R(5, 10), R(5, 10)>>,
                                   <<R(5, 10), R(1, 10)>>}}

\* BaseMetric: construction, update(frame) and reset() of each detector.
DetInit(u) ==
    CASE u = "eye" -> EyeInit [] u = "yawn" -> YawnInit
      [] u = "head" -> HeadInit [] u = "phone" -> PhoneInit
      [] u = "gaze" -> GazeInit

DetUpdate(u, s, f) ==
    CASE u = "eye" -> EyeUpdate(s, f) [] u = "yawn" -> YawnUpdate(s, f)
      [] u = "head" -> HeadUpdate(s, f) [] u = "phone" -> PhoneUpdate(s, f)
      [] u = "gaze" -> GazeUpdate(s, f)

DetReset(u, s) ==
    CASE u = "eye" -> EyeReset(s) [] u = "yawn" -> YawnReset(s)
      [] u = "head" -> HeadReset(s) [] u = "phone" -> PhoneReset(s)
      [] u = "gaze" -> GazeReset(s)

NoOut == [k |-> "none"]

\* The smoothed measurement an eye/yawn update reported (None if none).
Measured(u, o) ==
    CASE u = "eye" -> o.ear [] u = "yawn" -> o.mar [] OTHER -> None

\* Whether a smoothed measurement qualifies towards the alert, and whether
\* it lies at or beyond the opposite threshold.
Qualifies(u, m) ==
    CASE u = "eye" -> RLe(m, ear_threshold_close)
      [] u = "yawn" -> RLe(mar_threshold_open, m)
      [] OTHER -> FALSE

Opposite(u, m) ==
    CASE u = "eye" -> RLe(ear_threshold_open, m)
      [] u = "yawn" -> RLe(m, mar_threshold_close)
      [] OTHER -> FALSE

\* One frame is fed to the instance under test (and, once compare holds,
\* to the fresh twin).
Update(f) ==
    /\ nframes < MaxFrames
    /\ LET r == DetUpdate(unit, det, f)
           t == DetUpdate(unit, twin, f)
           m == Measured(unit, r.out)
       IN  /\ det' = r.st
           /\ out' = r.out
           /\ twin' = IF compare THEN t.st ELSE twin
           /\ twinOut' = IF compare THEN t.out ELSE twinOut
           /\ qual' = IF IsNone(m) THEN qual
                      ELSE IF Qualifies(unit, m) THEN qual + 1
                      ELSE IF Opposite(unit, m) THEN 0 ELSE qual
           /\ run' = IF IsNone(m) THEN run
                     ELSE IF Qualifies(unit, m) THEN run + 1 ELSE 0
           /\ valid' = IF unit = "head"
                       THEN IF f.k = "val" THEN valid + 1
                            ELSE IF r.st.baseline_count = 0
                                    /\ IsNone(r.st.baseline[1])
                                 THEN 0 ELSE valid
                       ELSE valid
           /\ flags' = IF unit = "eye" /\ ~IsNone(m)
                       THEN Append(flags, RLe(m, ear_threshold_close))
                       ELSE flags
    /\ op' = "update"
    /\ inp' = f
    /\ pre' = det
    /\ nframes' = nframes + 1
    /\ UNCHANGED <<unit, compare, nresets>>
    /\ UNCHANGED exceptDet

\* reset() on the instance under test; a fresh twin is constructed.
Reset ==
    /\ nresets < MaxResets
    /\ det' = DetReset(unit, det)
    /\ twin' = DetInit(unit)
    /\ compare' = TRUE
    /\ op' = "reset"
    /\ pre' = det
    /\ valid' = 0
    /\ flags' = << >>
    /\ nresets' = nresets + 1
    /\ UNCHANGED <<unit, out, twinOut, inp, nframes, qual, run>>
    /\ UNCHANGED exceptDet

DetectorsNext == (\E f \in Frames(unit) : Update(f)) \/ Reset


\* ========================================================== MetricManager

\* The metrics MetricManager.__init__ registers.
NumMetrics == 4

\* dict.update
DictUpdate(d, e) ==
    [key \in DOMAIN d \cup DOMAIN e |->
        IF key \in DOMAIN e THEN e[key] ELSE d[key]]

\* The merge keeping the value already present (setdefault per key).
ManagerStepFirstWins(acc, i, outcome) ==
    LET called == [acc EXCEPT !.calls = Append(@, i)]
    IN  IF outcome.k = "raise" THEN called
        ELSE IF outcome.k = "dict" /\ DOMAIN outcome.res # {}
        THEN [called EXCEPT !.results = DictUpdate(outcome.res, @)]
        ELSE called

\* One iteration of the loop of MetricManager.update: metric i is called;
\* outcome.k = "raise": its update raised (caught and logged); "none": it
\* returned None; "dict": it returned outcome.res, merged if non-empty.
ManagerStep(acc, i, outcome) ==
    LET called == [acc EXCEPT !.calls = Append(@, i)]
    IN  IF outcome.k = "raise" THEN called
        ELSE IF outcome.k = "dict" /\ DOMAIN outcome.res # {}
        THEN [called EXCEPT !.results = DictUpdate(@, outcome.res)]
        ELSE called

RECURSIVE ManagerLoop(_, _, _)
ManagerLoop(acc, i, outcomes) ==
    IF i > Len(outcomes) THEN acc
    ELSE ManagerLoop(ManagerStep(acc, i, outcomes[i]), i + 1, outcomes)

\* MetricManager.update: the loop over self.metrics from an empty record.
ManagerUpdateResult(outcomes) ==
    ManagerLoop([results |-> << >>, calls |-> << >>], 1, outcomes)

MetricKeys == {"a", "b"}
Outcomes ==
    {[k |-> "raise", res |-> << >>], [k |-> "none", res |-> << >>],
     [k |-> "dict", res |-> << >>],
     [k |-> "dict", res |-> [key \in {"a"} |-> 1]],
     [k |-> "dict", res |-> [key \in MetricKeys |-> IF key = "a" THEN 2 ELSE 3]]}

\* One frame goes through MetricManager.update.
ManagerUpdate(outcomes) ==
    /\ LET r == ManagerUpdateResult(outcomes)
       IN  /\ mgrResults' = r.results
           /\ mgrCalls' = r.calls
    /\ mgrOutcomes' = outcomes
    /\ UNCHANGED exceptMgr

ManagerNext == \E outcomes \in [1..NumMetrics -> Outcomes] : ManagerUpdate(outcomes)

\* =========================================================== bucket metrics

\* Records appended to one bucket.
MaxRecords == 3

KeyN == <<"n">>
KeyAlert == <<"x", "_alert">>

MetricValues ==
    {VNull, VBool(TRUE), VBool(FALSE), VInt(2), VInt(4), VFloat(R(5, 2)),
     VStr(1), VArr(<<VInt(1), VInt(2)>>), VArr(<<VFloat(R(7, 2))>>),
     VArr(<<VInt(3), VInt(4)>>), VObj([key \in {KeyN} |-> VInt(2)])}

\* The per-frame metric records: one key each, or none.
MetricRecords ==
    {<< >>} \cup {[key \in {k} |-> v] : k \in {KeyN, KeyAlert}, v \in MetricValues}

\* bucket.metrics.append(metrics) for one processed frame.
AppendMetrics(rec) ==
    /\ ~finalized
    /\ Len(bucketMetrics) < MaxRecords
    /\ bucketMetrics' = Append(bucketMetrics, rec)
    /\ UNCHANGED <<finalized, aggregate, uploadAggregate>>
    /\ UNCHANGED exceptAgg

\* aggregate_metrics(bucket.metrics) when the bucket is finalized, by each
\* of the two modules: None for an empty list, else the reduction.
FinalizeMetrics ==
    /\ ~finalized
    /\ finalized' = TRUE
    /\ aggregate' = IF bucketMetrics = << >> THEN VNull
                    ELSE VObj(AggregateMetricsObject(bucketMetrics))
    /\ uploadAggregate' = IF bucketMetrics = << >> THEN VNull
                          ELSE VObj(UploadAggregateMetricsObject(bucketMetrics))
    /\ UNCHANGED bucketMetrics
    /\ UNCHANGED exceptAgg

BucketNext == (\E rec \in MetricRecords : AppendMetrics(rec)) \/ FinalizeMetrics

\* ================================================ detection deduplication

\* update_detections calls on one bucket.
MaxDetectionCalls == 3

\* f"{value:.3f}" of a coordinate given in ten-thousandths: the sign as
\* printed and the thousandths after rounding ("-0.000" for -0.0001,
\* "0.000" for 0.0001).  The coordinates used here end in no 5.
Format3(value) == [neg |-> value < 0, mag |-> (Abs(value) + 5) \div 10]

\* key = f"{detection.class_id}:{bbox_key}"
DetectionKey(detection) ==
    <<detection.class_id,
      [i \in 1..Len(detection.bbox) |-> Format3(detection.bbox[i])]>>

\* The loop body of update_detections for one detection.
UpdateOne(u, detection) ==
    LET key == DetectionKey(detection)
    IN  IF key \notin DOMAIN u \/ detection.conf > u[key].conf
        THEN [k \in DOMAIN u \cup {key} |-> IF k = key THEN detection ELSE u[k]]
        ELSE u

RECURSIVE UpdateDetectionsLoop(_, _)
UpdateDetectionsLoop(u, detections) ==
    IF detections = << >> THEN u
    ELSE UpdateDetectionsLoop(UpdateOne(u, Head(detections)), Tail(detections))

\* Detections of one frame: confidences in hundredths, one bbox coordinate
\* in ten-thousandths (normalised boxes are not clipped, so a coordinate
\* can lie just below zero).
Detections ==
    {[class_id |-> PHONE_CLASS_ID, bbox |-> <<b>>, conf |-> c] :
        b \in {-1, 1, 1231, 1234}, c \in {30, 90}}
    \cup {[class_id |-> 0, bbox |-> <<1234>>, conf |-> 30]}

DetectionFrames ==
    {<<d>> : d \in Detections} \cup {<<d, e>> : d \in Detections, e \in Detections}

\* update_detections(bucket.detections, detections)
UpdateDetections(detections) ==
    /\ dedupCalls < MaxDetectionCalls
    /\ unique' = UpdateDetectionsLoop(unique, detections)
    /\ seen' = seen \cup {detections[i] : i \in 1..Len(detections)}
    /\ dedupCalls' = dedupCalls + 1
    /\ UNCHANGED exceptDedup

DedupNext == \E detections \in DetectionFrames : UpdateDetections(detections)

\* ===================================================== uploaded videos

\* Frames read from one uploaded video.
MaxDecoded == 4
\* 1 / target_fps, group_interval_sec and max_duration_sec, in clock ticks.
UploadInterval == 1
GroupInterval == 2
MaxDuration == 4

NoResult == [k |-> "none"]

\* The handlers around the decode loop with the first one missing: every
\* error is logged and the partial result returned.
OnLoopErrorSwallowsAll(err) == "swallow"

\* The handlers around the decode loop: OverflowError is re-raised, any
\* other exception is logged and decoding stops.
OnLoopError(err) == IF err = "overflow" THEN "reraise" ELSE "swallow"

\* flush_bucket
FlushBucket(g, bucket) ==
    IF bucket # << >>
    THEN Append(g, [bucket_index |-> bucket[1].bucket_index,
                    start_sec |-> bucket[1].start_sec,
                    end_sec |-> bucket[1].end_sec,
                    frame_count |-> bucket[1].frame_count])
    ELSE g

\* cap = cv2.VideoCapture(file_path) up to the first duration check;
\* duration is source_frame_count / source_fps, 0 when either is unknown.
UploadOpen(opened, fps, duration) ==
    /\ upState = "new"
    /\ source_fps' = fps
    /\ exceeded' = (opened /\ fps /\ duration > MaxDuration)
    /\ IF ~opened
       THEN upState' = "raised" /\ upError' = "invalid"
       ELSE IF fps /\ duration # 0 /\ duration > MaxDuration
       THEN upState' = "raised" /\ upError' = "overflow"
       ELSE upState' = "decoding" /\ upError' = "none"
    /\ UNCHANGED <<upResult, last_timestamp_sec, next_target_time,
                   frame_number, current_bucket, groups, decoded,
                   processedIdx>>
    /\ UNCHANGED exceptUp

\* timestamp_sec of a frame: the position reported in milliseconds if
\* positive, else the frame position over the rate, else one interval
\* after the last timestamp.
TimestampSec(f) ==
    IF f.ms > 0 THEN f.ms
    ELSE IF source_fps THEN f.pos
    ELSE last_timestamp_sec + UploadInterval

\* The return after the loop: the open bucket is flushed, the groups are
\* the result and frame_number is metadata.total_frames_processed.
UploadReturn(g, bucket, n) ==
    /\ upState' = "returned"
    /\ groups' = FlushBucket(g, bucket)
    /\ current_bucket' = << >>
    /\ upResult' = [k |-> "result", groups |-> FlushBucket(g, bucket),
                    total_frames_processed |-> n]

\* One iteration of the decode loop on a frame that was read; fails says
\* that a step of its processing raises an exception.
DecodeFrame(f, fails) ==
    /\ upState = "decoding"
    /\ decoded < MaxDecoded
    /\ decoded' = decoded + 1
    /\ LET timestamp_sec == TimestampSec(f)
           last == IF timestamp_sec > last_timestamp_sec
                   THEN timestamp_sec ELSE last_timestamp_sec
           bucket_index == timestamp_sec \div GroupInterval
           fresh == current_bucket = << >>
                    \/ bucket_index # current_bucket[1].bucket_index
           opened == IF fresh
                     THEN [bucket_index |-> bucket_index,
                           start_sec |-> bucket_index * GroupInterval,
                           end_sec |-> bucket_index * GroupInterval
                                       + GroupInterval,
                           frame_count |-> 0]
                     ELSE current_bucket[1]
       IN  /\ last_timestamp_sec' = last
           /\ exceeded' = (exceeded \/ timestamp_sec > MaxDuration)
           /\ IF last > MaxDuration
              THEN /\ IF OnLoopError("overflow") = "reraise"
                      THEN /\ upState' = "raised" /\ upError' = "overflow"
                           /\ UNCHANGED <<upResult, current_bucket, groups>>
                      ELSE /\ UploadReturn(groups, current_bucket,
                                           frame_number)
                           /\ UNCHANGED upError
                   /\ UNCHANGED <<next_target_time, frame_number, processedIdx>>
              ELSE IF timestamp_sec < next_target_time
              THEN UNCHANGED <<upState, upError, upResult, next_target_time,
                               frame_number, current_bucket, groups,
                               processedIdx>>
              ELSE /\ next_target_time' = next_target_time + UploadInterval
                   /\ frame_number' = frame_number + 1
                   /\ IF fails
                      THEN /\ IF OnLoopError("other") = "reraise"
                              THEN /\ upState' = "raised" /\ upError' = "other"
                                   /\ UNCHANGED <<upResult, current_bucket, groups>>
                              ELSE /\ UploadReturn(groups, current_bucket,
                                                   frame_number + 1)
                                   /\ UNCHANGED upError
                           /\ UNCHANGED processedIdx
                      ELSE /\ groups' = IF fresh
                                        THEN FlushBucket(groups, current_bucket)
                                        ELSE groups
                           /\ current_bucket' =
                                 <<[opened EXCEPT !.frame_count = @ + 1]>>
                           /\ processedIdx' = Append(processedIdx, bucket_index)
                           /\ UNCHANGED <<upState, upError, upResult>>
    /\ UNCHANGED source_fps
    /\ UNCHANGED exceptUp

\* cap.read() returns no frame: the loop ends and the result is returned.
DecodeEnd ==
    /\ upState = "decoding"
    /\ UploadReturn(groups, current_bucket, frame_number)
    /\ UNCHANGED <<upError, source_fps, last_timestamp_sec, next_target_time,
                   frame_number, decoded, processedIdx, exceeded>>
    /\ UNCHANGED exceptUp

\* What a read frame reports: its position in ticks (0 when unknown) and
\* its frame position over the rate.
DecodedFrames == [ms : 0..(MaxDuration + 1), pos : {1, 3}]

UploadNext ==
    \/ \E opened \in BOOLEAN, fps \in BOOLEAN, duration \in {0, 3, MaxDuration + 1} :
          UploadOpen(opened, fps, duration)
    \/ \E f \in DecodedFrames, fails \in BOOLEAN : DecodeFrame(f, fails)
    \/ DecodeEnd

\* ======================================================== live sessions

\* Frames the track delivers, and the ticks of the clock, in one behaviour.
MaxArrived == 3
MaxClock == 4
\* TARGET_INTERVAL_SEC and MAX_DATA_CHANNEL_RETRIES, scaled down.
LiveInterval == 2
MaxRetries == 1

MAX_DATA_CHANNEL_BUFFER == 1000000

\* The reader with an unbounded queue: nothing is discarded.
SlotPutQueues(q, frame) == Append(q, frame)

\* The reader with put_nowait alone: a full slot keeps the older frame.
SlotPutKeepsOldest(q, frame) == IF q # << >> THEN q ELSE <<frame>>

\* _read_frames on a received frame: frame_queue has maxsize 1; a full
\* queue is emptied with get_nowait, then the frame is put.
SlotPut(q, frame) ==
    LET emptied == IF Len(q) >= 1 THEN Tail(q) ELSE q
    IN  IF Len(emptied) < 1 THEN Append(emptied, frame) ELSE emptied

\* The rate check that lets every frame through.
RateLimitedNever(now, last) == FALSE

\* now - last_process_time < TARGET_INTERVAL_SEC
RateLimited(now, last) == now - last < LiveInterval

\* The buffer check with >= for >.
SaturatedFromLimit(buffered_amount) == buffered_amount >= MAX_DATA_CHANNEL_BUFFER

\* buffered_amount > MAX_DATA_CHANNEL_BUFFER
Saturated(buffered_amount) == buffered_amount > MAX_DATA_CHANNEL_BUFFER

\* The finally block without the await: the reader is cancelled, not joined.
JoinedWithoutWaiting(rs) == TRUE

\* await reader_task returns once the reader task is done.
Joined(rs) == rs = "done"

\* The top of a loop of _read_frames: the next point of suspension.
ReaderLoopTop == IF stopSet \/ ~peerPresent THEN "done" ELSE "recv"

\* The reader task runs for the first time.
ReaderStart ==
    /\ readerState = "start" /\ ~readerCancel
    /\ readerState' = ReaderLoopTop
    /\ UNCHANGED <<procState, procCancel, readerCancel, exitReason, stopSet,
                   peerPresent, slot, inflight, arrived, clock,
                   last_process_time, data_channel_retries, dropped_messages,
                   processed_frames, sentFrames, pulls>>
    /\ UNCHANGED exceptLive

\* track.recv() returns the next frame.
ReaderGotFrame ==
    /\ readerState = "recv" /\ ~readerCancel
    /\ ~trackEnded
    /\ arrived < MaxArrived
    /\ arrived' = arrived + 1
    /\ slot' = SlotPut(slot, arrived + 1)
    /\ readerState' = ReaderLoopTop
    /\ UNCHANGED <<procState, procCancel, readerCancel, exitReason, stopSet,
                   peerPresent, inflight, clock, last_process_time,
                   data_channel_retries, dropped_messages, processed_frames,
                   sentFrames, pulls>>
    /\ UNCHANGED exceptLive

\* track.recv() raises: logged, then asyncio.sleep(0).
ReaderRecvFails ==
    /\ readerState = "recv" /\ ~readerCancel
    /\ readerState' = "sleep"
    /\ UNCHANGED <<procState, procCancel, readerCancel, exitReason, stopSet,
                   peerPresent, slot, inflight, arrived, clock,
                   last_process_time, data_channel_retries, dropped_messages,
                   processed_frames, sentFrames, pulls>>
    /\ UNCHANGED exceptLive

ReaderWakes ==
    /\ readerState = "sleep" /\ ~readerCancel
    /\ readerState' = ReaderLoopTop
    /\ UNCHANGED <<procState, procCancel, readerCancel, exitReason, stopSet,
                   peerPresent, slot, inflight, arrived, clock,
                   last_process_time, data_channel_retries, dropped_messages,
                   processed_frames, sentFrames, pulls>>
    /\ UNCHANGED exceptLive

\* The cancellation reaches the reader where it is suspended.
ReaderCancelled ==
    /\ readerCancel /\ readerState \in {"start", "recv", "sleep"}
    /\ readerState' = "done"
    /\ UNCHANGED <<procState, procCancel, readerCancel, exitReason, stopSet,
                   peerPresent, slot, inflight, arrived, clock,
                   last_process_time, data_channel_retries, dropped_messages,
                   processed_frames, sentFrames, pulls>>
    /\ UNCHANGED exceptLive

\* The processing loop is left for reason: the finally block cancels the
\* reader task rs and awaits it.
ExitLoop(reason, rs) ==
    /\ exitReason' = reason
    /\ readerCancel' = (readerCancel \/ rs # "done")
    /\ procState' = IF Joined(rs) THEN "done" ELSE "finally"

Goto(state) ==
    /\ procState' = state
    /\ UNCHANGED <<exitReason, readerCancel>>

\* The top of the while loop of process_video_frames.
LoopTop(rs) ==
    IF stopSet THEN ExitLoop("stop", rs)
    ELSE IF ~peerPresent THEN ExitLoop("peer", rs)
    ELSE Goto("get")

\* The processing task runs for the first time: it creates the reader.
ProcStart ==
    /\ procState = "start" /\ ~procCancel
    /\ readerState' = "start"
    /\ LoopTop("start")
    /\ UNCHANGED <<procCancel, stopSet, peerPresent, slot, inflight, arrived,
                   clock, last_process_time, data_channel_retries,
                   dropped_messages, processed_frames, sentFrames, pulls>>
    /\ UNCHANGED exceptLive

\* wait_for(frame_queue.get(), 0.5) times out on an empty queue.
ProcGetTimeout ==
    /\ procState = "get" /\ ~procCancel
    /\ slot = << >>
    /\ LoopTop(readerState)
    /\ UNCHANGED <<readerState, procCancel, stopSet, peerPresent, slot,
                   inflight, arrived, clock, last_process_time,
                   data_channel_retries, dropped_messages, processed_frames,
                   sentFrames, pulls>>
    /\ UNCHANGED exceptLive

\* What the loop does with a pulled frame, up to its next suspension.
Verdict(in) ==
    IF RateLimited(clock, last_process_time) THEN "early"
    ELSE IF in.empty THEN "empty"
    ELSE IF in.paused THEN "paused"
    ELSE IF ~in.channel_open
    THEN IF data_channel_retries + 1 > MaxRetries THEN "retries" ELSE "retry"
    ELSE IF Saturated(in.buffered_amount) THEN "saturated"
    ELSE IF in.raises # "none" THEN in.raises
    ELSE "handed"

\* frame_queue.get() returns a frame: one pass through the loop body, to
\* the executor call or to whatever ends the pass earlier.  A requested
\* reset starts the frame counters again (the detectors it renews are not
\* part of this component).
ProcGetFrame(in) ==
    /\ procState = "get" /\ ~procCancel
    /\ slot # << >>
    /\ LET frame == Head(slot)
           verdict == Verdict(in)
       IN  /\ slot' = Tail(slot)
           /\ pulls' = Append(pulls, [frame |-> frame, latest |-> arrived,
                                      t |-> clock, verdict |-> verdict,
                                      over |-> /\ verdict \notin
                                                    {"early", "empty", "paused",
                                                     "retry", "retries"}
                                               /\ in.buffered_amount >
                                                    MAX_DATA_CHANNEL_BUFFER])
           /\ last_process_time' =
                 IF verdict = "early" THEN last_process_time ELSE clock
           /\ data_channel_retries' =
                 IF verdict \in {"early", "empty", "paused"}
                 THEN data_channel_retries
                 ELSE IF verdict \in {"retry", "retries"}
                 THEN data_channel_retries + 1
                 ELSE 0
           /\ dropped_messages' =
                 IF verdict = "saturated" THEN dropped_messages + 1
                 ELSE dropped_messages
           /\ inflight' = IF verdict = "handed" THEN <<frame>> ELSE inflight
           /\ CASE verdict \in {"early", "paused", "saturated"} ->
                       LoopTop(readerState)
                [] verdict \in {"empty", "retries", "media", "fatal"} ->
                       ExitLoop(verdict, readerState)
                [] verdict = "retry" -> Goto("retry_sleep")
                [] verdict = "error" -> Goto("err_sleep")
                [] verdict = "handed" -> Goto("executor")
           /\ processed_frames' =
                 IF in.reset /\ verdict \notin {"early", "empty"} THEN 0
                 ELSE processed_frames
    /\ UNCHANGED <<readerState, procCancel, stopSet, peerPresent, arrived,
                   clock, sentFrames>>
    /\ UNCHANGED exceptLive

\* run_in_executor returns: the result is sent, or the send fails, or the
\* processing raised.
ProcExecutorDone(outcome) ==
    /\ procState = "executor" /\ ~procCancel
    /\ inflight' = << >>
    /\ IF outcome = "sent"
       THEN /\ sentFrames' = sentFrames \cup {Head(inflight)}
            /\ processed_frames' = processed_frames + 1
            /\ LoopTop(readerState)
       ELSE /\ Goto(IF outcome = "send_fails" THEN "send_sleep" ELSE "err_sleep")
            /\ UNCHANGED <<sentFrames, processed_frames>>
    /\ UNCHANGED <<readerState, procCancel, stopSet, peerPresent, slot,
                   arrived, clock, last_process_time, data_channel_retries,
                   dropped_messages, pulls>>
    /\ UNCHANGED exceptLive

\* One of the sleeps of the loop body is over.
ProcWakes ==
    /\ procState \in {"retry_sleep", "send_sleep", "err_sleep"} /\ ~procCancel
    /\ LoopTop(readerState)
    /\ UNCHANGED <<readerState, procCancel, stopSet, peerPresent, slot,
                   inflight, arrived, clock, last_process_time,
                   data_channel_retries, dropped_messages, processed_frames,
                   sentFrames, pulls>>
    /\ UNCHANGED exceptLive

\* The cancellation reaches the processing task: before its first run it
\* just ends; inside the loop CancelledError goes through both handlers to
\* the finally block.
ProcCancelled ==
    /\ procCancel
    /\ procState \in {"start", "get", "retry_sleep", "executor", "send_sleep",
                      "err_sleep"}
    /\ procCancel' = FALSE
    /\ inflight' = << >>
    /\ IF procState = "start"
       THEN /\ procState' = "done" /\ exitReason' = "cancelled"
            /\ UNCHANGED readerCancel
       ELSE ExitLoop("cancelled", readerState)
    /\ UNCHANGED <<readerState, stopSet, peerPresent, slot, arrived, clock,
                   last_process_time, data_channel_retries, dropped_messages,
                   processed_frames, sentFrames, pulls>>
    /\ UNCHANGED exceptLive

\* await reader_task in the finally block returns.
ProcFinish ==
    /\ procState = "finally"
    /\ Joined(readerState)
    /\ procState' = "done"
    /\ procCancel' = FALSE
    /\ UNCHANGED <<readerState, readerCancel, exitReason, stopSet,
                   peerPresent, slot, inflight, arrived, clock,
                   last_process_time, data_channel_retries, dropped_messages,
                   processed_frames, sentFrames, pulls>>
    /\ UNCHANGED exceptLive

\* stop_processing.set()
StopSignal ==
    /\ ~stopSet
    /\ stopSet' = TRUE
    /\ UNCHANGED <<procState, readerState, procCancel, readerCancel,
                   exitReason, peerPresent, slot, inflight, arrived, clock,
                   last_process_time, data_channel_retries, dropped_messages,
                   processed_frames, sentFrames, pulls>>
    /\ UNCHANGED exceptLive

\* ConnectionManager.disconnect for this client (remove = TRUE), or the
\* task.cancel() of ConnectionManager.close (remove = FALSE).
CancelTask(remove) ==
    /\ peerPresent
    /\ peerPresent' = ~remove
    /\ procCancel' = (procCancel \/ procState # "done")
    /\ UNCHANGED <<procState, readerState, readerCancel, exitReason, stopSet,
                   slot, inflight, arrived, clock, last_process_time,
                   data_channel_retries, dropped_messages, processed_frames,
                   sentFrames, pulls>>
    /\ UNCHANGED exceptLive

Tick ==
    /\ clock < MaxClock
    /\ clock' = clock + 1
    /\ UNCHANGED <<procState, readerState, procCancel, readerCancel,
                   exitReason, stopSet, peerPresent, slot, inflight, arrived,
                   last_process_time, data_channel_retries, dropped_messages,
                   processed_frames, sentFrames, pulls>>
    /\ UNCHANGED exceptLive

\* What one pass of the loop body reads from its surroundings.
LiveInputs ==
    [empty : BOOLEAN, reset : BOOLEAN, paused : BOOLEAN, channel_open : BOOLEAN,
     buffered_amount : {0, MAX_DATA_CHANNEL_BUFFER, MAX_DATA_CHANNEL_BUFFER + 1},
     raises : {"none", "media", "error", "fatal"}]

LiveNext ==
    \/ ReaderStart \/ ReaderGotFrame \/ ReaderRecvFails \/ ReaderWakes
    \/ ReaderCancelled
    \/ ProcStart \/ ProcGetTimeout
    \/ \E in \in LiveInputs : ProcGetFrame(in)
    \/ \E outcome \in {"sent", "send_fails", "raises"} : ProcExecutorDone(outcome)
    \/ ProcWakes \/ ProcCancelled \/ ProcFinish
    \/ StopSignal
    \/ \E remove \in BOOLEAN : CancelTask(remove)
    \/ Tick

\* The remote track ends: from now on track.recv() raises MediaStreamError
\* at every call.
TrackEnds ==
    /\ ~trackEnded
    /\ procState \notin {"start", "done"}
    /\ trackEnded' = TRUE
    /\ UNCHANGED exceptTrack

\* The reader task's steps and the processing loop's steps.
ReaderStep ==
    \/ ReaderStart \/ ReaderGotFrame \/ ReaderRecvFails \/ ReaderWakes
    \/ ReaderCancelled

ProcStep ==
    \/ ProcStart \/ ProcGetTimeout
    \/ \E in \in LiveInputs : ProcGetFrame(in)
    \/ \E outcome \in {"sent", "send_fails", "raises"} : ProcExecutorDone(outcome)
    \/ ProcWakes \/ ProcFinish

\* A session that nobody stops, disconnects or cancels.
UnattendedNext ==
    \/ ReaderStep
    \/ ProcStep
    \/ TrackEnds
    \/ Tick

\* ================================================== ConnectionManager
\* The registries of ConnectionManager for two client ids, the expiry task
\* and the frame task of every session, and close() with its awaits.  New
\* sessions and signalling events arrive until close() is called;
\* disconnects, task ends and expiry tasks go on during it.  Time is counted
\* in ticks.

MaxSessions == 2
SESSION_TTL_SEC == 1
MaxSessClock == SESSION_TTL_SEC

Clients == {"c1", "c2"}

Op(name, client_id) == [op |-> name, client |-> client_id]

NoTimer == [client |-> "", started_at |-> -1, state |-> "none"]

\* A discard that leaves the request queued.
DiscardKeeps(set, client_id) == set

\* dict.pop(client_id, None) and set.discard(client_id) on a registry that
\* is kept as the set of its keys.
Discard(set, client_id) == set \ {client_id}

\* task.cancel() on every task of ids that has not finished.
CancelTasks(states, ids) ==
    [t \in DOMAIN states |->
        IF t \in ids /\ states[t] = "running" THEN "cancelled" ELSE states[t]]

\* task.cancel() on every expiry task of ids that has not finished.
CancelTimers(ts, ids) ==
    [s \in DOMAIN ts |->
        IF s \in ids /\ ts[s].state = "sleeping"
        THEN [NoTimer EXCEPT !.state = "cancelled"] ELSE ts[s]]

\* The first unused number of a family of tasks, 0 when all are used.
NextFree(states) ==
    IF \E t \in DOMAIN states : states[t] = "none"
    THEN CHOOSE t \in DOMAIN states :
            /\ states[t] = "none"
            /\ \A u \in DOMAIN states : states[u] = "none" => t <= u
    ELSE 0

\* ConnectionManager.connect: the websocket is accepted and registered and
\* the expiry task created.  Two sessions of one client id do not read the
\* same start time.
Connect(client_id) ==
    LET s == NextFree([n \in DOMAIN timers |-> timers[n].state])
    IN  /\ closeState = "idle"
        /\ s # 0
        /\ \A n \in DOMAIN timers :
              (timers[n].client = client_id /\ timers[n].state = "sleeping")
                 => timers[n].started_at # sessNow
        /\ active_connections' = [active_connections EXCEPT ![client_id] = s]
        /\ processing_paused' = processing_paused \cup {client_id}
        /\ processing_reset' = processing_reset \cup {client_id}
        /\ session_started_at' =
              [session_started_at EXCEPT ![client_id] = sessNow]
        /\ session_expiry_tasks' = [session_expiry_tasks EXCEPT ![client_id] = s]
        /\ timers' = [timers EXCEPT ![s] = [client |-> client_id,
                                            started_at |-> sessNow,
                                            state |-> "sleeping"]]
        /\ lastOp' = Op("other", "")
        /\ UNCHANGED <<peer_connections, data_channels, frame_tasks,
                       head_pose_recalibrate_requests, taskState, taskOwner,
                       wsCloses, closeState, pcTodo, wsTodo, sessNow>>
        /\ UNCHANGED exceptConn

\* create_peer_connection registers the peer connection of a connected
\* client.
CreatePeerConnection(client_id) ==
    /\ closeState = "idle"
    /\ active_connections[client_id] # 0
    /\ client_id \notin peer_connections
    /\ peer_connections' = peer_connections \cup {client_id}
    /\ lastOp' = Op("other", "")
    /\ UNCHANGED <<active_connections, data_channels, frame_tasks,
                   processing_paused, processing_reset, session_started_at,
                   session_expiry_tasks, head_pose_recalibrate_requests,
                   taskState, taskOwner, timers, wsCloses, closeState,
                   pcTodo, wsTodo, sessNow>>
    /\ UNCHANGED exceptConn

\* on_track: the frame-processing task of the session is created and
\* registered (a session has one video track).
OnTrack(client_id) ==
    LET t == active_connections[client_id]
    IN  /\ closeState = "idle"
        /\ client_id \in peer_connections
        /\ t # 0 /\ taskState[t] = "none"
        /\ frame_tasks' = [frame_tasks EXCEPT ![client_id] = t]
        /\ taskState' = [taskState EXCEPT ![t] = "running"]
        /\ taskOwner' = [taskOwner EXCEPT ![t] = client_id]
        /\ lastOp' = Op("other", "")
        /\ UNCHANGED <<active_connections, peer_connections, data_channels,
                       processing_paused, processing_reset,
                       session_started_at, session_expiry_tasks,
                       head_pose_recalibrate_requests, timers, wsCloses,
                       closeState, pcTodo, wsTodo, sessNow>>
        /\ UNCHANGED exceptConn

\* on_datachannel registers the channel.
OnDataChannel(client_id) ==
    /\ closeState = "idle"
    /\ client_id \in peer_connections
    /\ client_id \notin data_channels
    /\ data_channels' = data_channels \cup {client_id}
    /\ lastOp' = Op("other", "")
    /\ UNCHANGED <<active_connections, peer_connections, frame_tasks,
                   processing_paused, processing_reset, session_started_at,
                   session_expiry_tasks, head_pose_recalibrate_requests,
                   taskState, taskOwner, timers, wsCloses, closeState,
                   pcTodo, wsTodo, sessNow>>
    /\ UNCHANGED exceptConn

\* ConnectionManager.request_head_pose_recalibration
RequestRecalibration(client_id) ==
    /\ closeState = "idle"
    /\ active_connections[client_id] # 0
    /\ client_id \notin head_pose_recalibrate_requests
    /\ head_pose_recalibrate_requests' =
          head_pose_recalibrate_requests \cup {client_id}
    /\ lastOp' = Op("other", "")
    /\ UNCHANGED <<active_connections, peer_connections, data_channels,
                   frame_tasks, processing_paused, processing_reset,
                   session_started_at, session_expiry_tasks, taskState,
                   taskOwner, timers, wsCloses, closeState, pcTodo, wsTodo,
                   sessNow>>
    /\ UNCHANGED exceptConn

\* A frame-processing task ends, by itself or by its cancellation.
TaskEnds(t) ==
    /\ taskState[t] \in {"running", "cancelled"}
    /\ taskState' = [taskState EXCEPT ![t] = "done"]
    /\ lastOp' = Op("other", "")
    /\ UNCHANGED <<active_connections, peer_connections, data_channels,
                   frame_tasks, processing_paused, processing_reset,
                   session_started_at, session_expiry_tasks,
                   head_pose_recalibrate_requests, taskOwner, timers,
                   wsCloses, closeState, pcTodo, wsTodo, sessNow>>
    /\ UNCHANGED exceptConn

\* ConnectionManager.disconnect, called by the websocket route when it ends
\* and by on_connectionstatechange.
Disconnect(client_id) ==
    /\ active_connections' = [active_connections EXCEPT ![client_id] = 0]
    /\ peer_connections' = Discard(peer_connections, client_id)
    /\ data_channels' = Discard(data_channels, client_id)
    /\ processing_paused' = Discard(processing_paused, client_id)
    /\ processing_reset' = Discard(processing_reset, client_id)
    /\ session_started_at' = [session_started_at EXCEPT ![client_id] = -1]
    /\ session_expiry_tasks' = [session_expiry_tasks EXCEPT ![client_id] = 0]
    /\ timers' = CancelTimers(timers, {session_expiry_tasks[client_id]})
    /\ head_pose_recalibrate_requests' =
          Discard(head_pose_recalibrate_requests, client_id)
    /\ frame_tasks' = [frame_tasks EXCEPT ![client_id] = 0]
    /\ taskState' = CancelTasks(taskState, {frame_tasks[client_id]})
    /\ lastOp' = Op("disconnect", client_id)
    /\ UNCHANGED <<taskOwner, wsCloses, closeState, pcTodo, wsTodo, sessNow>>
    /\ UNCHANGED exceptConn

\* _expire_session wakes from its sleep: it returns when the session is not
\* the registered one, and calls close(code=4000) on the registered
\* websocket otherwise.
ExpireSession(s) ==
    LET client_id == timers[s].client
        ws == active_connections[client_id]
    IN  /\ timers[s].state = "sleeping"
        /\ sessNow - timers[s].started_at >= SESSION_TTL_SEC
        /\ timers' = [timers EXCEPT ![s] = [NoTimer EXCEPT !.state = "done"]]
        /\ wsCloses' =
              IF session_started_at[client_id] # timers[s].started_at \/ ws = 0
              THEN wsCloses
              ELSE [wsCloses EXCEPT ![ws] = Append(@, "timer")]
        /\ lastOp' = Op("other", "")
        /\ UNCHANGED <<active_connections, peer_connections, data_channels,
                       frame_tasks, processing_paused, processing_reset,
                       session_started_at, session_expiry_tasks,
                       head_pose_recalibrate_requests, taskState, taskOwner,
                       closeState, pcTodo, wsTodo, sessNow>>
        /\ UNCHANGED exceptConn

\* The end of ConnectionManager.close: every registry is cleared and the
\* registered expiry tasks are cancelled.
CloseClear ==
    /\ active_connections' = [c \in Clients |-> 0]
    /\ peer_connections' = {}
    /\ data_channels' = {}
    /\ frame_tasks' = [c \in Clients |-> 0]
    /\ processing_paused' = {}
    /\ processing_reset' = {}
    /\ session_started_at' = [c \in Clients |-> -1]
    /\ timers' = CancelTimers(timers,
                              {session_expiry_tasks[c] : c \in Clients})
    /\ session_expiry_tasks' = [c \in Clients |-> 0]
    /\ head_pose_recalibrate_requests' = {}
    /\ closeState' = "done"
    /\ UNCHANGED <<wsCloses, wsTodo>>

\* The loop of close() over the websockets registered when it starts: close
\* is called on the first one and awaited, or there is none.
CloseWebSockets ==
    LET todo == {active_connections[c] : c \in Clients} \ {0}
    IN  IF todo = {}
        THEN CloseClear
        ELSE /\ \E ws \in todo :
                   /\ wsCloses' = [wsCloses EXCEPT ![ws] = Append(@, "shutdown")]
                   /\ wsTodo' = todo \ {ws}
             /\ closeState' = "wss"
             /\ UNCHANGED <<active_connections, peer_connections,
                            data_channels, frame_tasks, processing_paused,
                            processing_reset, session_started_at,
                            session_expiry_tasks,
                            head_pose_recalibrate_requests, timers>>

\* ConnectionManager.close is called: the frame tasks are cancelled and the
\* first peer connection is being closed, or there is none.
CloseBegin ==
    /\ closeState = "idle"
    /\ taskState' = CancelTasks(taskState, {frame_tasks[c] : c \in Clients})
    /\ IF peer_connections = {}
       THEN CloseWebSockets /\ pcTodo' = {}
       ELSE /\ \E c \in peer_connections : pcTodo' = peer_connections \ {c}
            /\ closeState' = "pcs"
            /\ UNCHANGED <<active_connections, peer_connections,
                           data_channels, frame_tasks, processing_paused,
                           processing_reset, session_started_at,
                           session_expiry_tasks,
                           head_pose_recalibrate_requests, timers, wsCloses,
                           wsTodo>>
    /\ lastOp' = Op("other", "")
    /\ UNCHANGED <<taskOwner, sessNow>>
    /\ UNCHANGED exceptConn

\* await pc.close() returns: the next peer connection, or the websockets.
ClosePeerDone ==
    /\ closeState = "pcs"
    /\ IF pcTodo = {}
       THEN CloseWebSockets /\ pcTodo' = {}
       ELSE /\ \E c \in pcTodo : pcTodo' = pcTodo \ {c}
            /\ UNCHANGED <<active_connections, peer_connections,
                           data_channels, frame_tasks, processing_paused,
                           processing_reset, session_started_at,
                           session_expiry_tasks,
                           head_pose_recalibrate_requests, timers, wsCloses,
                           closeState, wsTodo>>
    /\ lastOp' = Op("other", "")
    /\ UNCHANGED <<taskState, taskOwner, sessNow>>
    /\ UNCHANGED exceptConn

\* await ws.close() returns or raises: the next websocket, or the clearing
\* of the registries.
CloseWebSocketDone ==
    /\ closeState = "wss"
    /\ IF wsTodo = {}
       THEN CloseClear
       ELSE /\ \E ws \in wsTodo :
                  /\ wsCloses' = [wsCloses EXCEPT ![ws] = Append(@, "shutdown")]
                  /\ wsTodo' = wsTodo \ {ws}
            /\ UNCHANGED <<active_connections, peer_connections,
                           data_channels, frame_tasks, processing_paused,
                           processing_reset, session_started_at,
                           session_expiry_tasks,
                           head_pose_recalibrate_requests, timers,
                           closeState>>
    /\ lastOp' = Op("other", "")
    /\ UNCHANGED <<taskState, taskOwner, pcTodo, sessNow>>
    /\ UNCHANGED exceptConn

\* Time passes; it is followed as long as an expiry task sleeps.
SessTick ==
    /\ sessNow < MaxSessClock
    /\ \E s \in DOMAIN timers : timers[s].state = "sleeping"
    /\ sessNow' = sessNow + 1
    /\ lastOp' = Op("other", "")
    /\ UNCHANGED <<active_connections, peer_connections, data_channels,
                   frame_tasks, processing_paused, processing_reset,
                   session_started_at, session_expiry_tasks,
                   head_pose_recalibrate_requests, taskState, taskOwner,
                   timers, wsCloses, closeState, pcTodo, wsTodo>>
    /\ UNCHANGED exceptConn

SessionsNext ==
    \/ \E client_id \in Clients :
          \/ Connect(client_id)
          \/ CreatePeerConnection(client_id)
          \/ OnTrack(client_id)
          \/ OnDataChannel(client_id)
          \/ RequestRecalibration(client_id)
          \/ Disconnect(client_id)
    \/ \E t \in 1..MaxSessions : TaskEnds(t)
    \/ \E s \in 1..MaxSessions : ExpireSession(s)
    \/ CloseBegin \/ ClosePeerDone \/ CloseWebSocketDone
    \/ SessTick

\* ======================================================= bucket landmarks

\* One bucket of process_uploaded_video: the running sum and count of the
\* frames' smoothed landmark vectors, and the average _finalize_bucket
\* makes of them. Coordinates are integers here; the average is a rational.

\* Frames put into one bucket in one behaviour.
MaxBucketFrames == 3

\* An optional list: none is TRUE for Python's None.
NoSum == [none |-> TRUE, v |-> << >>]
SumOf(v) == [none |-> FALSE, v |-> v]

\* smoothed_landmarks of a frame, flattened; << >> stands for a frame with
\* has_face false or with nothing from the smoother.
LandmarkVectors == {<< >>, <<1>>, <<3>>, <<1, 2>>, <<2, 4>>}

\* The restarted running sum: [0.0] * len(smoothed_landmarks)
Zeros(n) == [i \in 1..n |-> 0]

\* The element-wise addition of a frame's vector to the running sum.
AddTo(sum, count, smoothed) ==
    IF Len(smoothed) = Len(sum)
    THEN [sum |-> SumOf([i \in 1..Len(sum) |-> sum[i] + smoothed[i]]),
          count |-> count + 1]
    ELSE [sum |-> SumOf(sum), count |-> count]

\* The landmark accumulation of process_uploaded_video for one frame: a
\* running sum that is None or of another length is replaced by zeros of
\* the frame's length and the count set to 0 before the frame is added.
Accumulate(sum, count, smoothed) ==
    IF smoothed = << >> THEN [sum |-> sum, count |-> count]
    ELSE IF sum.none \/ Len(sum.v) # Len(smoothed)
         THEN AddTo(Zeros(Len(smoothed)), 0, smoothed)
         ELSE AddTo(sum.v, count, smoothed)

\* face_landmarks of _finalize_bucket.
FinalLandmarks(sum, count) ==
    IF ~sum.none /\ sum.v # << >> /\ count # 0
    THEN SumOf([i \in 1..Len(sum.v) |-> R(sum.v[i], count)])
    ELSE NoSum

\* One processed frame lands in the open bucket.
AddFrame(smoothed) ==
    /\ ~lmFinalized
    /\ Len(lmSeen) < MaxBucketFrames
    /\ landmarks_sum' = Accumulate(landmarks_sum, landmarks_count, smoothed).sum
    /\ landmarks_count' =
          Accumulate(landmarks_sum, landmarks_count, smoothed).count
    /\ lmSeen' = Append(lmSeen, smoothed)
    /\ UNCHANGED <<face_landmarks, lmFinalized>>
    /\ UNCHANGED exceptLm

\* flush_bucket: a bucket exists only once a frame was put into it.
FinalizeBucket ==
    /\ ~lmFinalized
    /\ Len(lmSeen) > 0
    /\ face_landmarks' = FinalLandmarks(landmarks_sum, landmarks_count)
    /\ lmFinalized' = TRUE
    /\ UNCHANGED <<landmarks_sum, landmarks_count, lmSeen>>
    /\ UNCHANGED exceptLm

LandmarksNext ==
    (\E smoothed \in LandmarkVectors : AddFrame(smoothed)) \/ FinalizeBucket

\* ======================================================= vector smoother

\* Smoother of smoother.py on numeric sequences. An optional sequence is a
\* record whose none is TRUE for Python's None.

\* update() and reset() calls on one Smoother in one behaviour.
MaxSmootherCalls == 4
\* Smoother.max_missing, scaled down (default 5).
VecMaxMissing == 1
\* Smoother.alpha (default 0.3).
VecAlpha == R(3, 10)

NoVector == [none |-> TRUE, v |-> << >>]
Vector(v) == [none |-> FALSE, v |-> v]

\* Smoother.__init__
VecSmootherInit == [last_value |-> NoVector, missing_count |-> 0]

\* list(map(float, new_value)): every element as a rational.
FloatList(v) == [i \in 1..Len(v) |-> R(v[i], 1)]

\* [alpha * new_list[i] + (1 - alpha) * last_value[i] for i in
\* range(len(new_list))], for a new_list no longer than last_value.
Smoothed(new_list, last_value) ==
    [i \in 1..Len(new_list) |->
        RAdd(RMul(VecAlpha, new_list[i]),
             RMul(RSub(ROne, VecAlpha), last_value[i]))]

\* What an update is: the new state s and the outcome, a returned optional
\* sequence (k = "return") or a raised IndexError (k = "IndexError").
Gives(s, v) == [s |-> s, out |-> [k |-> "return", v |-> v]]
Raises(s) == [s |-> s, out |-> [k |-> "IndexError", v |-> NoVector]]

\* The branch of Smoother.update for a present value: missing_count is
\* zeroed first; last_value[i] for an index beyond the stored list raises
\* IndexError before anything is stored.
VecPresent(sm, new_list) ==
    IF sm.last_value.none
    THEN Gives([last_value |-> Vector(new_list), missing_count |-> 0],
                  Vector(new_list))
    ELSE IF Len(new_list) > Len(sm.last_value.v)
    THEN Raises([sm EXCEPT !.missing_count = 0])
    ELSE Gives([last_value |-> Vector(Smoothed(new_list, sm.last_value.v)),
                   missing_count |-> 0],
                  Vector(Smoothed(new_list, sm.last_value.v)))

\* The branch of Smoother.update for a missing value.
VecMissing(sm) ==
    IF sm.missing_count + 1 <= VecMaxMissing
    THEN Gives([sm EXCEPT !.missing_count = @ + 1], sm.last_value)
    ELSE Gives([last_value |-> NoVector,
                   missing_count |-> sm.missing_count + 1], NoVector)

\* Smoother.update
VecSmootherUpdate(sm, new_value) ==
    IF ~new_value.none THEN VecPresent(sm, FloatList(new_value.v))
    ELSE VecMissing(sm)

\* The sequences passed to update: None, and lists of one, two and three
\* numbers.
SmootherInputs ==
    {NoVector, Vector(<<1>>), Vector(<<2, 4>>), Vector(<<1, 3>>),
     Vector(<<5, 1, 2>>)}

VecUpdate(new_value) ==
    /\ vsCalls < MaxSmootherCalls
    /\ vsState' = VecSmootherUpdate(vsState, new_value).s
    /\ vsOut' = VecSmootherUpdate(vsState, new_value).out
    /\ vsPre' = vsState
    /\ vsIn' = new_value
    /\ vsCalls' = vsCalls + 1
    /\ UNCHANGED exceptVs

\* Smoother.reset
VecReset ==
    /\ vsCalls < MaxSmootherCalls
    /\ vsState' = VecSmootherInit
    /\ vsOut' = [k |-> "reset", v |-> NoVector]
    /\ vsPre' = vsState
    /\ vsIn' = NoVector
    /\ vsCalls' = vsCalls + 1
    /\ UNCHANGED exceptVs

SmootherNext == (\E new_value \in SmootherInputs : VecUpdate(new_value)) \/ VecReset

\* ======================================================= session control

\* process_video_frames as a sequence of passes through its loop body, with
\* the control signals of the session as state. Between two awaits the
\* coroutine runs alone, so a pass reads every signal at one moment; the
\* signals change between passes and while the executor runs. A detector's
\* state is kept as the sequence of frames it has seen since it was built
\* (for the head pose detector: since its baseline was last discarded).

\* Frames pulled from the queue in one behaviour.
MaxPasses == 2

\* The client whose session this is.
SessionClient == "c1"

\* MetricManager(): no detector has seen a frame.
NewManager == [frames |-> << >>, head |-> << >>]

\* The locals of process_video_frames as set before the loop, at time now.
NewSession(now) ==
    [frame_count |-> 0, processed_frames |-> 0, start_time |-> now,
     last_process_time |-> 0, data_channel_retries |-> 0,
     dropped_messages |-> 0, metric_manager |-> NewManager,
     smoother |-> << >>]

NoTwin == [on |-> FALSE, s |-> NewSession(0), verdict |-> "none"]
NoResultSent == [frame |-> 0, metrics |-> NewManager, face_landmarks |-> << >>]

\* The reset branch that keeps the old detectors and only restarts the
\* counters.
ResetSessionKeepsDetectors(s, now) ==
    [s EXCEPT !.frame_count = 0, !.processed_frames = 0,
              !.start_time = now, !.last_process_time = now]

\* The body of `if connection_manager.processing_reset.get(client_id)`.
ResetSession(s, now) ==
    [s EXCEPT !.metric_manager = NewManager, !.smoother = << >>,
              !.frame_count = 0, !.processed_frames = 0,
              !.start_time = now, !.last_process_time = now]

\* ConnectionManager.consume_head_pose_recalibration keeping the request.
ConsumeKeepsRequest(requests, client_id) ==
    [requests |-> requests, consumed |-> client_id \in requests]

\* ConnectionManager.consume_head_pose_recalibration: the requests left and
\* the returned flag.
ConsumeRecalibration(requests, client_id) ==
    [requests |-> requests \ {client_id}, consumed |-> client_id \in requests]

\* MetricManager.reset_head_pose_baseline: the head pose detector goes back
\* to calibrating; the other detectors are not touched.
ResetHeadPoseBaseline(mm) == [mm EXCEPT !.head = << >>]

\* The retry check that gives up on reaching the limit.
RetriesExhaustedAtLimit(retries) == retries >= MaxRetries

\* data_channel_retries > MAX_DATA_CHANNEL_RETRIES
RetriesExhausted(retries) == retries > MaxRetries

\* What a pass gives: the locals after it, what it did with the frame, and
\* the recalibration requests left.
PassResult(s, verdict, requests) ==
    [s |-> s, verdict |-> verdict, requests |-> requests]

\* The pass from the recalibration check on: the frame goes to the executor.
HandOver(s, requests) ==
    PassResult([s EXCEPT !.data_channel_retries = 0,
                         !.metric_manager =
                            IF ConsumeRecalibration(requests,
                                                    SessionClient).consumed
                            THEN ResetHeadPoseBaseline(@) ELSE @],
               "handed",
               ConsumeRecalibration(requests, SessionClient).requests)

\* AfterCount handing a frame over although the session is paused.
AfterCountIgnoresPause(s, paused, requests, in, now) ==
    IF ~in.channel_open
    THEN PassResult([s EXCEPT !.data_channel_retries = @ + 1],
                    IF RetriesExhausted(s.data_channel_retries + 1)
                    THEN "retries" ELSE "retry", requests)
    ELSE IF in.saturated
    THEN PassResult([s EXCEPT !.data_channel_retries = 0,
                              !.dropped_messages = @ + 1],
                    "saturated", requests)
    ELSE HandOver(s, requests)

\* The pass from the paused check on: a paused session drops the frame and
\* sets last_process_time again; a channel that is absent or not open
\* counts a retry (the short sleep that follows is part of the pass); a
\* buffer above the ceiling drops the result.
AfterCount(s, paused, requests, in, now) ==
    IF paused
    THEN PassResult([s EXCEPT !.last_process_time = now], "paused", requests)
    ELSE IF ~in.channel_open
    THEN PassResult([s EXCEPT !.data_channel_retries = @ + 1],
                    IF RetriesExhausted(s.data_channel_retries + 1)
                    THEN "retries" ELSE "retry", requests)
    ELSE IF in.saturated
    THEN PassResult([s EXCEPT !.data_channel_retries = 0,
                              !.dropped_messages = @ + 1],
                    "saturated", requests)
    ELSE HandOver(s, requests)

\* frame_count += 1
Counted(s) == [s EXCEPT !.frame_count = @ + 1]

\* One pass of the loop body for a session with locals s: in.got says
\* whether frame_queue.get() gave a frame within the timeout.
Pass(s, paused, reset, requests, in, now) ==
    IF ~in.got THEN PassResult(s, "timeout", requests)
    ELSE IF RateLimited(now, s.last_process_time)
    THEN PassResult(s, "early", requests)
    ELSE IF in.empty
    THEN PassResult([s EXCEPT !.last_process_time = now], "empty", requests)
    ELSE AfterCount(Counted(IF reset THEN ResetSession(s, now)
                            ELSE [s EXCEPT !.last_process_time = now]),
                    paused, requests, in, now)

\* Every pass taken to go through the reset check.
ReachedResetAlways(verdict) == TRUE

\* Whether a pass with this verdict went through the reset check.
ReachedReset(verdict) == verdict \notin {"timeout", "early", "empty"}

\* process_video_frame in the executor and the send of its result: the
\* smoother and then the detectors see the frame; "detector_raises" is an
\* exception between the two, "send_fails" a failing channel.send.
Processed(s, frame, outcome) ==
    [s EXCEPT !.smoother = Append(@, frame),
              !.metric_manager =
                 IF outcome = "detector_raises" THEN @
                 ELSE [frames |-> Append(@.frames, frame),
                       head |-> Append(@.head, frame)],
              !.processed_frames = IF outcome = "sent" THEN @ + 1 ELSE @]

\* InferenceData of a frame: what the detectors and the smoother make of
\* the frames they have seen.
ResultOf(s, frame) ==
    [frame |-> frame, metrics |-> s.metric_manager,
     face_landmarks |-> s.smoother]

\* What a pass reads from frame_queue and the data channel.
PassInputs ==
    [got : BOOLEAN, empty : BOOLEAN, channel_open : BOOLEAN,
     saturated : BOOLEAN]

NoPass(name, client_id) ==
    [op |-> name, client |-> client_id, frame |-> 0, verdict |-> "none",
     paused |-> FALSE, reset |-> FALSE, requests |-> {},
     pre |-> NewSession(0), twinVerdict |-> "none"]

\* The newborn after the pass: started new when the pass consumed a reset
\* request, else given the same pass if it exists.
TwinAfter(consumed, in) ==
    IF consumed
    THEN [on |-> TRUE,
          s |-> Pass(NewSession(ctlNow), pausedFlag, FALSE,
                     head_pose_recalibrate_requests, in, ctlNow).s,
          verdict |-> Pass(NewSession(ctlNow), pausedFlag, FALSE,
                           head_pose_recalibrate_requests, in, ctlNow).verdict]
    ELSE IF newborn.on
    THEN [on |-> TRUE,
          s |-> Pass(newborn.s, pausedFlag, resetFlag,
                     head_pose_recalibrate_requests, in, ctlNow).s,
          verdict |-> Pass(newborn.s, pausedFlag, resetFlag,
                           head_pose_recalibrate_requests, in, ctlNow).verdict]
    ELSE newborn

\* One pass of the session through the loop body.
SessionPass(in) ==
    /\ ctlState = "top"
    /\ ctlPulled < MaxPasses
    /\ sess' = Pass(sess, pausedFlag, resetFlag,
                    head_pose_recalibrate_requests, in, ctlNow).s
    /\ head_pose_recalibrate_requests' =
          Pass(sess, pausedFlag, resetFlag,
               head_pose_recalibrate_requests, in, ctlNow).requests
    /\ resetFlag' =
          (resetFlag /\ ~ReachedReset(Pass(sess, pausedFlag, resetFlag,
                                           head_pose_recalibrate_requests,
                                           in, ctlNow).verdict))
    /\ newborn' = TwinAfter(resetFlag /\ ~resetFlag', in)
    /\ ctlState' =
          CASE RetriesExhausted(sess'.data_channel_retries) -> "ended"
            [] in.got /\ in.empty
               /\ ~RateLimited(ctlNow, sess.last_process_time) -> "ended"
            [] Pass(sess, pausedFlag, resetFlag,
                    head_pose_recalibrate_requests, in, ctlNow).verdict
               = "handed" -> "executor"
            [] OTHER -> "top"
    /\ ctlPulled' = IF in.got THEN ctlPulled + 1 ELSE ctlPulled
    /\ ctlOp' = [op |-> "pass", client |-> SessionClient,
                 frame |-> IF in.got THEN ctlPulled + 1 ELSE 0,
                 verdict |-> Pass(sess, pausedFlag, resetFlag,
                                  head_pose_recalibrate_requests, in,
                                  ctlNow).verdict,
                 paused |-> pausedFlag, reset |-> resetFlag,
                 requests |-> head_pose_recalibrate_requests,
                 pre |-> sess, twinVerdict |-> newborn'.verdict]
    /\ pausedPulls' = IF in.got /\ pausedFlag
                      THEN pausedPulls \cup {ctlPulled + 1} ELSE pausedPulls
    /\ handedFrames' =
          IF Pass(sess, pausedFlag, resetFlag, head_pose_recalibrate_requests,
                  in, ctlNow).verdict = "handed"
          THEN handedFrames \cup {ctlPulled + 1} ELSE handedFrames
    /\ acceptTimes' =
          IF in.got /\ ~RateLimited(ctlNow, sess.last_process_time)
          THEN Append(acceptTimes, ctlNow) ELSE acceptTimes
    /\ twinResult' = IF resetFlag /\ ~resetFlag' THEN NoResultSent
                     ELSE twinResult
    /\ UNCHANGED <<pausedFlag, ctlNow, lastResult>>
    /\ UNCHANGED <<active_connections, peer_connections, data_channels,
                   frame_tasks, processing_paused, processing_reset,
                   session_started_at, session_expiry_tasks, taskState,
                   taskOwner, timers, wsCloses, closeState, pcTodo, wsTodo,
                   sessNow, lastOp>>
    /\ UNCHANGED <<detVars, mgrVars, aggVars, dedupVars, upVars, liveVars,
                   lmVars, vsVars, infVars, trackVars>>

\* The executor call of the handed frame is over.
SessionExecutorDone(outcome) ==
    /\ ctlState = "executor"
    /\ sess' = Processed(sess, ctlPulled, outcome)
    /\ newborn' = IF newborn.on
               THEN [newborn EXCEPT !.s = Processed(@, ctlPulled, outcome)]
               ELSE newborn
    /\ lastResult' = IF outcome = "sent" THEN ResultOf(sess', ctlPulled)
                     ELSE lastResult
    /\ twinResult' = IF outcome = "sent" /\ newborn.on
                     THEN ResultOf(newborn'.s, ctlPulled) ELSE twinResult
    /\ ctlState' = "top"
    /\ ctlOp' = NoPass(outcome, SessionClient)
    /\ UNCHANGED <<pausedFlag, resetFlag, ctlNow, ctlPulled, pausedPulls,
                   handedFrames, acceptTimes>>
    /\ UNCHANGED exceptCtl

\* The owner of the session sets or clears its paused flag.
SetPaused(value) ==
    /\ ctlState # "ended"
    /\ pausedFlag # value
    /\ pausedFlag' = value
    /\ ctlOp' = NoPass("pause", SessionClient)
    /\ UNCHANGED <<resetFlag, sess, newborn, ctlState, ctlNow, ctlPulled,
                   lastResult, twinResult, pausedPulls, handedFrames,
                   acceptTimes>>
    /\ UNCHANGED exceptCtl

\* The owner of the session asks for a reset.
RequestReset ==
    /\ ctlState # "ended"
    /\ ~resetFlag
    /\ resetFlag' = TRUE
    /\ ctlOp' = NoPass("reset", SessionClient)
    /\ UNCHANGED <<pausedFlag, sess, newborn, ctlState, ctlNow, ctlPulled,
                   lastResult, twinResult, pausedPulls, handedFrames,
                   acceptTimes>>
    /\ UNCHANGED exceptCtl

\* ConnectionManager.request_head_pose_recalibration, for any client.
SessionRequestRecalibration(client_id) ==
    /\ ctlState # "ended"
    /\ head_pose_recalibrate_requests' =
          head_pose_recalibrate_requests \cup {client_id}
    /\ ctlOp' = NoPass("request", client_id)
    /\ UNCHANGED <<pausedFlag, resetFlag, sess, newborn, ctlState, ctlNow,
                   ctlPulled, lastResult, twinResult, pausedPulls,
                   handedFrames, acceptTimes>>
    /\ UNCHANGED <<active_connections, peer_connections, data_channels,
                   frame_tasks, processing_paused, processing_reset,
                   session_started_at, session_expiry_tasks, taskState,
                   taskOwner, timers, wsCloses, closeState, pcTodo, wsTodo,
                   sessNow, lastOp>>
    /\ UNCHANGED <<detVars, mgrVars, aggVars, dedupVars, upVars, liveVars,
                   lmVars, vsVars, infVars, trackVars>>

\* ConnectionManager.disconnect, as far as this session's signals go: the
\* client's flags and its pending request are dropped, and the frame task
\* of the session's own client is cancelled.
SessionDisconnect(client_id) ==
    /\ ctlState # "ended"
    /\ head_pose_recalibrate_requests' =
          Discard(head_pose_recalibrate_requests, client_id)
    /\ pausedFlag' = (pausedFlag /\ client_id # SessionClient)
    /\ resetFlag' = (resetFlag /\ client_id # SessionClient)
    /\ ctlState' = IF client_id = SessionClient THEN "ended" ELSE ctlState
    /\ ctlOp' = [NoPass("disconnect", client_id) EXCEPT
                    !.requests = head_pose_recalibrate_requests]
    /\ UNCHANGED <<sess, newborn, ctlNow, ctlPulled, lastResult, twinResult,
                   pausedPulls, handedFrames, acceptTimes>>
    /\ UNCHANGED <<active_connections, peer_connections, data_channels,
                   frame_tasks, processing_paused, processing_reset,
                   session_started_at, session_expiry_tasks, taskState,
                   taskOwner, timers, wsCloses, closeState, pcTodo, wsTodo,
                   sessNow, lastOp>>
    /\ UNCHANGED <<detVars, mgrVars, aggVars, dedupVars, upVars, liveVars,
                   lmVars, vsVars, infVars, trackVars>>

SessionTick ==
    /\ ctlState # "ended"
    /\ ctlNow <= MaxClock
    /\ ctlNow' = ctlNow + 1
    /\ ctlOp' = NoPass("tick", "")
    /\ UNCHANGED <<pausedFlag, resetFlag, sess, newborn, ctlState, ctlPulled,
                   lastResult, twinResult, pausedPulls, handedFrames,
                   acceptTimes>>
    /\ UNCHANGED exceptCtl

ControlNext ==
    \/ \E in \in PassInputs : SessionPass(in)
    \/ \E outcome \in {"sent", "send_fails", "detector_raises"} :
          SessionExecutorDone(outcome)
    \/ \E value \in BOOLEAN : SetPaused(value)
    \/ RequestReset
    \/ \E client_id \in Clients : SessionRequestRecalibration(client_id)
    \/ \E client_id \in Clients : SessionDisconnect(client_id)
    \/ SessionTick

\* =================================================== inference providers

\* The face landmarker and the object detector are built once and shared by
\* the executor threads that run process_video_frame; the shutdown thread
\* calls their close(). A step is what a thread does between two points
\* where another thread can run and see a difference: taking or releasing a
\* lock, reading or writing a field of the detector.

\* The executor threads, and the thread that closes.
Workers == {"w1", "w2"}
Closer == "closer"

\* YoloObjectDetector.detect inside `with self._lock`: self.session.run on
\* the session read there; on None the attribute lookup raises, which the
\* handler wraps as RuntimeError("Inference failed: ...").
ObjectLockedRun(is_closed, s) ==
    IF s = "None" THEN "Inference failed" ELSE "in"

\* A thread starts process_video_frame: FaceLandmarker.detect converts the
\* image and then waits for the lock.
FaceDetectCall(t) ==
    /\ worker[t] = "idle"
    /\ worker' = [worker EXCEPT ![t] = "face_wait"]
    /\ objResult' = [objResult EXCEPT ![t] = "none"]
    /\ UNCHANGED <<faceLock, objLock, closed, session, landmarker, closer,
                   closeReturned, ranAfterClose>>
    /\ UNCHANGED exceptInf

\* with self._lock: raw_result = self._landmarker.detect_for_video(...)
FaceDetectEnter(t) ==
    /\ worker[t] = "face_wait"
    /\ faceLock = "free"
    /\ faceLock' = t
    /\ worker' = [worker EXCEPT ![t] = "face_in"]
    /\ UNCHANGED <<objResult, objLock, closed, session, landmarker, closer,
                   closeReturned, ranAfterClose>>
    /\ UNCHANGED exceptInf

\* detect_for_video returns or, on a closed landmarker, raises; the lock is
\* released either way, and the frame goes on to the object detector only
\* if it returned.
FaceDetectLeave(t, raises) ==
    /\ worker[t] = "face_in"
    /\ raises => landmarker = "closed"
    /\ faceLock' = "free"
    /\ worker' = [worker EXCEPT ![t] = IF raises THEN "idle" ELSE "obj_check"]
    /\ UNCHANGED <<objResult, objLock, closed, session, landmarker, closer,
                   closeReturned, ranAfterClose>>
    /\ UNCHANGED exceptInf

\* YoloObjectDetector.detect: `if self._closed or self.session is None`,
\* read without the lock.
ObjectDetectCheck(t) ==
    /\ worker[t] = "obj_check"
    /\ IF closed \/ session = "None"
       THEN /\ worker' = [worker EXCEPT ![t] = "idle"]
            /\ objResult' = [objResult EXCEPT ![t] = "has been closed"]
       ELSE /\ worker' = [worker EXCEPT ![t] = "obj_wait"]
            /\ UNCHANGED objResult
    /\ UNCHANGED <<faceLock, objLock, closed, session, landmarker, closer,
                   closeReturned, ranAfterClose>>
    /\ UNCHANGED exceptInf

\* The letterbox and preprocessing done, the thread takes the lock and
\* calls self.session.run.
ObjectDetectEnter(t) ==
    /\ worker[t] = "obj_wait"
    /\ objLock = "free"
    /\ IF ObjectLockedRun(closed, session) = "in"
       THEN /\ objLock' = t
            /\ worker' = [worker EXCEPT ![t] = "obj_in"]
            /\ ranAfterClose' = (ranAfterClose \/ closeReturned)
            /\ UNCHANGED objResult
       ELSE /\ objLock' = "free"
            /\ worker' = [worker EXCEPT ![t] = "idle"]
            /\ objResult' =
                  [objResult EXCEPT ![t] = ObjectLockedRun(closed, session)]
            /\ UNCHANGED ranAfterClose
    /\ UNCHANGED <<faceLock, closed, session, landmarker, closer,
                   closeReturned>>
    /\ UNCHANGED exceptInf

\* session.run returns and the lock is released; the detections are
\* post-processed outside the lock.
ObjectDetectLeave(t) ==
    /\ worker[t] = "obj_in"
    /\ objLock' = "free"
    /\ worker' = [worker EXCEPT ![t] = "idle"]
    /\ objResult' = [objResult EXCEPT ![t] = "detections"]
    /\ UNCHANGED <<faceLock, closed, session, landmarker, closer,
                   closeReturned, ranAfterClose>>
    /\ UNCHANGED exceptInf

\* FaceLandmarker.close: with self._lock: self._landmarker.close()
FaceCloseEnter ==
    /\ closer = "idle"
    /\ faceLock = "free"
    /\ faceLock' = Closer
    /\ closer' = "face_in"
    /\ UNCHANGED <<worker, objResult, objLock, closed, session, landmarker,
                   closeReturned, ranAfterClose>>
    /\ UNCHANGED exceptInf

FaceCloseLeave ==
    /\ closer = "face_in"
    /\ landmarker' = "closed"
    /\ faceLock' = "free"
    /\ closer' = "idle"
    /\ UNCHANGED <<worker, objResult, objLock, closed, session,
                   closeReturned, ranAfterClose>>
    /\ UNCHANGED exceptInf

\* YoloObjectDetector.close takes the lock.
ObjectCloseEnter ==
    /\ closer = "idle"
    /\ objLock = "free"
    /\ objLock' = Closer
    /\ closer' = "obj_in"
    /\ UNCHANGED <<worker, objResult, faceLock, closed, session, landmarker,
                   closeReturned, ranAfterClose>>
    /\ UNCHANGED exceptInf

\* if self._closed: return; else self._closed = True
ObjectCloseMark ==
    /\ closer = "obj_in"
    /\ IF closed
       THEN /\ objLock' = "free"
            /\ closer' = "idle"
            /\ closeReturned' = TRUE
            /\ UNCHANGED closed
       ELSE /\ closed' = TRUE
            /\ closer' = "obj_marked"
            /\ UNCHANGED <<objLock, closeReturned>>
    /\ UNCHANGED <<worker, objResult, faceLock, session, landmarker,
                   ranAfterClose>>
    /\ UNCHANGED exceptInf

\* self.session = None; self.input_name = None; the lock is released.
ObjectCloseLeave ==
    /\ closer = "obj_marked"
    /\ session' = "None"
    /\ objLock' = "free"
    /\ closer' = "idle"
    /\ closeReturned' = TRUE
    /\ UNCHANGED <<worker, objResult, faceLock, closed, landmarker,
                   ranAfterClose>>
    /\ UNCHANGED exceptInf

InferenceNext ==
    \/ \E t \in Workers : FaceDetectCall(t)
    \/ \E t \in Workers : FaceDetectEnter(t)
    \/ \E t \in Workers, raises \in BOOLEAN : FaceDetectLeave(t, raises)
    \/ \E t \in Workers : ObjectDetectCheck(t)
    \/ \E t \in Workers : ObjectDetectEnter(t)
    \/ \E t \in Workers : ObjectDetectLeave(t)
    \/ FaceCloseEnter
    \/ FaceCloseLeave
    \/ ObjectCloseEnter
    \/ ObjectCloseMark
    \/ ObjectCloseLeave

\* ========================================================= specifications

\* The state after construction: one detector instance and its twin of a
\* kind in units, a MetricManager that has seen no frame, an empty bucket.
Start(units) ==
    /\ unit \in units
    /\ det = DetInit(unit)
    /\ twin = DetInit(unit)
    /\ compare = FALSE
    /\ out = NoOut
    /\ twinOut = NoOut
    /\ op = "init"
    /\ inp = [k |-> "init"]
    /\ pre = DetInit(unit)
    /\ nframes = 0
    /\ nresets = 0
    /\ qual = 0
    /\ run = 0
    /\ valid = 0
    /\ flags = << >>
    /\ mgrOutcomes = << >>
    /\ mgrResults = << >>
    /\ mgrCalls = << >>
    /\ bucketMetrics = << >>
    /\ finalized = FALSE
    /\ aggregate = VNull
    /\ uploadAggregate = VNull
    /\ unique = << >>
    /\ seen = {}
    /\ dedupCalls = 0
    /\ upState = "new"
    /\ upError = "none"
    /\ upResult = NoResult
    /\ source_fps = FALSE
    /\ last_timestamp_sec = 0
    /\ next_target_time = 0
    /\ frame_number = 0
    /\ current_bucket = << >>
    /\ groups = << >>
    /\ decoded = 0
    /\ processedIdx = << >>
    /\ exceeded = FALSE
    /\ procState = "start"
    /\ readerState = "none"
    /\ procCancel = FALSE
    /\ readerCancel = FALSE
    /\ exitReason = "none"
    /\ stopSet = FALSE
    /\ peerPresent = TRUE
    /\ slot = << >>
    /\ inflight = << >>
    /\ arrived = 0
    /\ clock = 0
    /\ last_process_time = 0
    /\ data_channel_retries = 0
    /\ dropped_messages = 0
    /\ processed_frames = 0
    /\ sentFrames = {}
    /\ pulls = << >>
    /\ active_connections = [c \in Clients |-> 0]
    /\ peer_connections = {}
    /\ data_channels = {}
    /\ frame_tasks = [c \in Clients |-> 0]
    /\ processing_paused = {}
    /\ processing_reset = {}
    /\ session_started_at = [c \in Clients |-> -1]
    /\ session_expiry_tasks = [c \in Clients |-> 0]
    /\ head_pose_recalibrate_requests = {}
    /\ taskState = [t \in 1..MaxSessions |-> "none"]
    /\ taskOwner = [t \in 1..MaxSessions |-> ""]
    /\ timers = [s \in 1..MaxSessions |-> NoTimer]
    /\ wsCloses = [s \in 1..MaxSessions |-> << >>]
    /\ closeState = "idle"
    /\ pcTodo = {}
    /\ wsTodo = {}
    /\ sessNow = 0
    /\ lastOp = Op("other", "")
    /\ landmarks_sum = NoSum
    /\ landmarks_count = 0
    /\ lmSeen = << >>
    /\ face_landmarks = NoSum
    /\ lmFinalized = FALSE
    /\ vsState = VecSmootherInit
    /\ vsPre = VecSmootherInit
    /\ vsIn = NoVector
    /\ vsOut = [k |-> "init", v |-> NoVector]
    /\ vsCalls = 0
    /\ pausedFlag = FALSE
    /\ resetFlag = FALSE
    /\ sess = NewSession(LiveInterval)
    /\ newborn = NoTwin
    /\ ctlState = "top"
    /\ ctlNow = LiveInterval
    /\ ctlPulled = 0
    /\ ctlOp = NoPass("init", "")
    /\ lastResult = NoResultSent
    /\ twinResult = NoResultSent
    /\ pausedPulls = {}
    /\ handedFrames = {}
    /\ acceptTimes = << >>
    /\ worker = [t \in Workers |-> "idle"]
    /\ objResult = [t \in Workers |-> "none"]
    /\ faceLock = "free"
    /\ objLock = "free"
    /\ closed = FALSE
    /\ session = "session"
    /\ landmarker = "open"
    /\ closer = "idle"
    /\ closeReturned = FALSE
    /\ ranAfterClose = FALSE
    /\ trackEnded = FALSE

SpecDetectors == Start(Units) /\ [][DetectorsNext]_vars

SpecGaze == Start({"gaze"}) /\ [][DetectorsNext]_vars

SpecManager == Start({"eye"}) /\ [][ManagerNext]_vars

SpecBucket == Start({"eye"}) /\ [][BucketNext]_vars

SpecDedup == Start({"eye"}) /\ [][DedupNext]_vars

SpecUpload == Start({"eye"}) /\ [][UploadNext]_vars

SpecLive == Start({"eye"}) /\ [][LiveNext]_vars

SpecSessions == Start({"eye"}) /\ [][SessionsNext]_vars

SpecLandmarks == Start({"eye"}) /\ [][LandmarksNext]_vars

SpecSmoother == Start({"eye"}) /\ [][SmootherNext]_vars

SpecControl == Start({"eye"}) /\ [][ControlNext]_vars

SpecInference == Start({"eye"}) /\ [][InferenceNext]_vars

\* The event loop runs every task that is ready, so neither the reader nor
\* the processing loop waits forever while it has a step to take.
SpecUnattended ==
    /\ Start({"eye"})
    /\ [][UnattendedNext]_vars
    /\ WF_vars(ReaderStep)
    /\ WF_vars(ProcStep)

SpecAllDetectors == Start(Units \cup {"gaze"}) /\ [][DetectorsNext]_vars

\* ------------------------------------------------------ detector claims

\* The alert flag of an eye-closure or yawn instance.
AlertOf(u, s) ==
    CASE u = "eye" -> s.closed [] u = "yawn" -> s.active [] OTHER -> FALSE

MinFrames(u) ==
    CASE u = "eye" -> MinEyeFrames [] u = "yawn" -> MinYawnFrames
      [] OTHER -> 0

Updated(u) == unit = u /\ op = "update"

AlertRose ==
    /\ unit \in {"eye", "yawn"}
    /\ op = "update"
    /\ ~AlertOf(unit, pre)
    /\ AlertOf(unit, det)

\* C1: an instance that processed any frames and was then reset() returns,
\* on every later frame, exactly what a freshly constructed instance fed
\* the same frames returns.
C1_ResetEqualsFresh == (compare /\ op = "update") => out = twinOut

\* C2 as stated: the alert rises only on an update that completes at least
\* min_duration_frames qualifying valid frames with no non-qualifying valid
\* frame (an in-band one included) between them.
C2_RisesOnlyAfterUnbrokenRun == AlertRose => run >= MinFrames(unit)

\* C2 amended: the alert rises only on a qualifying valid frame that
\* completes at least min_duration_frames qualifying valid frames since the
\* last valid frame at or beyond the opposite threshold (in-band frames
\* neither count nor break the run), and a frame at or beyond the opposite
\* threshold never leaves the alert raised.
C2_RisesOnlyAfterDebounce ==
    /\ AlertRose =>
          /\ ~IsNone(Measured(unit, out))
          /\ Qualifies(unit, Measured(unit, out))
          /\ qual >= MinFrames(unit)
    /\ (unit \in {"eye", "yawn"} /\ op = "update"
        /\ ~IsNone(Measured(unit, out))
        /\ ~Qualifies(unit, Measured(unit, out))
        /\ Opposite(unit, Measured(unit, out)))
          => ~AlertOf(unit, det)

\* The alert rose although an in-band frame lay inside the qualifying run.
C2_Witness == AlertRose /\ run < qual /\ qual = MinFrames(unit)

InBand(m) ==
    /\ ~IsNone(m)
    /\ RLt(ear_threshold_close, m)
    /\ RLt(m, ear_threshold_open)

\* C3: eye_closed goes false->true only on a frame with smoothed EAR <=
\* close and true->false only on a frame with smoothed EAR >= open; a frame
\* strictly inside the band (or without a measurement) keeps it.
C3_EyeClosedChangesOutsideBand ==
    unit = "eye" =>
       /\ (~pre.closed /\ det.closed) =>
             (op = "update" /\ ~IsNone(out.ear)
              /\ RLe(out.ear, ear_threshold_close))
       /\ (pre.closed /\ ~det.closed) =>
             (op = "update" /\ ~IsNone(out.ear)
              /\ RLe(ear_threshold_open, out.ear))
       /\ (op = "update" /\ InBand(out.ear)) => det.closed = pre.closed

\* An in-band frame arrived while eye_closed was latched, and it stayed.
C3_Witness ==
    Updated("eye") /\ InBand(out.ear) /\ pre.closed /\ det.closed

\* C4: yawn_count grows by exactly one on an update whose smoothed MAR is
\* <= close while the yawn is active (so after >= min_duration_frames open
\* frames), that update ends the yawn, and no other update changes it.
C4_YawnCountedOncePerClose ==
    Updated("yawn") =>
       LET closing == /\ ~IsNone(out.mar)
                      /\ RLe(out.mar, mar_threshold_close)
                      /\ pre.active
       IN  /\ det.events = pre.events + (IF closing THEN 1 ELSE 0)
           /\ out.yawn_count = det.events
           /\ closing => (pre.dur >= MinYawnFrames /\ ~det.active
                          /\ det.dur = 0)

\* A second yawn was counted.
C4_Witness == Updated("yawn") /\ pre.events = 1 /\ det.events = 2

AnyHeadAlert(o) == \E i \in Axes : o.alert[i]

\* C5 as stated: each of the first calibration_frames valid frames returns
\* calibrating = true and no alert.
C5_FirstNFramesCalibrating ==
    (Updated("head") /\ inp.k = "val" /\ valid <= CalibrationFrames)
        => (out.calibrating /\ ~AnyHeadAlert(out))

\* C5 amended: each of the first calibration_frames - 1 valid frames returns
\* calibrating = true, no relative angles and no alert; the
\* calibration_frames-th valid frame completes the baseline and returns
\* calibrating = false; an update returns calibrating = false or an alert
\* only from that frame on.
C5_CalibrationPhase ==
    Updated("head") =>
       /\ (inp.k = "val" /\ valid < CalibrationFrames)
             => (out.calibrating /\ ~AnyHeadAlert(out)
                 /\ out.rel = NoAngles /\ out.angles = inp.a)
       /\ (inp.k = "val" /\ valid >= CalibrationFrames) => ~out.calibrating
       /\ (~out.calibrating \/ AnyHeadAlert(out))
             => valid >= CalibrationFrames

\* The frame that completes the calibration count reports calibrating =
\* false, after a frame with large raw angles reported calibrating = true.
C5_Witness ==
    /\ Updated("head") /\ inp.k = "val"
    /\ valid = CalibrationFrames
    /\ ~out.calibrating
    /\ pre.baseline_sum # <<RZero, RZero, RZero>>

\* ------------------------------------------------- orchestrator claims

\* The metrics that returned a record holding key on the last frame.
Returned(key) ==
    {i \in 1..NumMetrics :
        mgrOutcomes[i].k = "dict" /\ key \in DOMAIN mgrOutcomes[i].res}

MaxOf(S) == CHOOSE x \in S : \A y \in S : y <= x

\* C6: MetricManager.update calls every registered metric in list order
\* even when an earlier one raises; the merged record holds exactly the keys
\* the non-raising metrics returned, each with the value of the last metric
\* in list order that returned it.
C6_ManagerIsolatesFailures ==
    mgrOutcomes # << >> =>
       /\ mgrCalls = [i \in 1..NumMetrics |-> i]
       /\ DOMAIN mgrResults = {key \in MetricKeys : Returned(key) # {}}
       /\ \A key \in DOMAIN mgrResults :
             mgrResults[key] = mgrOutcomes[MaxOf(Returned(key))].res[key]

\* The first metric raised, two later ones returned different values for
\* the same key, and the later value is in the record.
C6_Witness ==
    /\ mgrOutcomes # << >>
    /\ mgrOutcomes[1].k = "raise"
    /\ mgrOutcomes[2].k = "dict" /\ mgrOutcomes[3].k = "dict"
    /\ mgrOutcomes[4].k = "none"
    /\ DOMAIN mgrOutcomes[2].res = {"a"} /\ mgrOutcomes[2].res["a"] = 1
    /\ DOMAIN mgrOutcomes[3].res = MetricKeys
    /\ mgrResults = mgrOutcomes[3].res
    /\ mgrCalls = <<1, 2, 3, 4>>

\* --------------------------------------------------- reduction claims

\* The frames of the bucket whose record holds a non-null value for key.
NonNull(key) ==
    {i \in 1..Len(bucketMetrics) :
        key \in DOMAIN bucketMetrics[i] /\ bucketMetrics[i][key].t # "null"}

ValueAt(key, i) == bucketMetrics[i][key]
LastValue(key) == ValueAt(key, MaxOf(NonNull(key)))
FirstValue(key) == ValueAt(key, CHOOSE i \in NonNull(key) : \A j \in NonNull(key) : i <= j)
AllKeys == {KeyN, KeyAlert}

Reduced == finalized /\ bucketMetrics # << >>

\* Python's == on two reduced values: numbers by value, lists element by
\* element, dicts key by key, anything else by identity of type and value.
NumEq(v, w) ==
    IF IsNumeric(v) /\ IsNumeric(w) THEN v.q = w.q ELSE v = w

PyEq(v, w) ==
    IF v.t = "arr" /\ w.t = "arr"
    THEN Len(v.a) = Len(w.a) /\ \A i \in 1..Len(v.a) : NumEq(v.a[i], w.a[i])
    ELSE IF v.t = "obj" /\ w.t = "obj"
    THEN DOMAIN v.o = DOMAIN w.o /\ \A key \in DOMAIN v.o : NumEq(v.o[key], w.o[key])
    ELSE NumEq(v, w)

DictEq(d, e) ==
    DOMAIN d = DOMAIN e /\ \A key \in DOMAIN d : PyEq(d[key], e[key])

\* C7: a key ending in the alert suffix reduces to true if any of its
\* non-null boolean values is true, to false if it has boolean values and
\* all are false, to its last non-null value if none is boolean, whatever
\* the types of its values (the rule precedes every type-based rule); a key
\* with no non-null value is absent.
C7_AlertKeyOr ==
    Reduced =>
       \A key \in {k \in AllKeys : EndsWithAlert(k)} :
          LET bools == {i \in NonNull(key) : ValueAt(key, i).t = "bool"}
              expected ==
                 IF \E i \in bools : ValueAt(key, i).b THEN VBool(TRUE)
                 ELSE IF bools # {} THEN VBool(FALSE)
                 ELSE LastValue(key)
          IN  IF NonNull(key) = {} THEN key \notin DOMAIN aggregate.o
              ELSE /\ key \in DOMAIN aggregate.o
                   /\ aggregate.o[key] = expected
                   /\ uploadAggregate.o[key] = expected

\* The bucket [{"x_alert": true}, {"x_alert": false}] reduced to
\* {"x_alert": true}.
C7_Witness ==
    /\ Reduced
    /\ bucketMetrics = <<[key \in {KeyAlert} |-> VBool(TRUE)],
                         [key \in {KeyAlert} |-> VBool(FALSE)]>>
    /\ aggregate.o = [key \in {KeyAlert} |-> VBool(TRUE)]

IntegerKeys ==
    {k \in AllKeys : ~EndsWithAlert(k) /\ NonNull(k) # {}
                     /\ \A i \in NonNull(k) : ValueAt(k, i).t = "int"}

\* C8: a non-alert key whose non-null values are all integers reduces to
\* their maximum, in video_aggregation.py and in the reduction
\* process_uploaded_video applies alike: the two reductions return the same
\* result for every list of records.
C8_IntegerMaxInBothReductions ==
    Reduced =>
       /\ \A key \in IntegerKeys :
             LET m == MaxOf({ValueAt(key, i).q[1] : i \in NonNull(key)})
             IN  /\ NumEq(aggregate.o[key], VInt(m))
                 /\ NumEq(uploadAggregate.o[key], VInt(m))
       /\ DictEq(aggregate.o, uploadAggregate.o)

NumericKeys ==
    {k \in AllKeys : ~EndsWithAlert(k) /\ NonNull(k) # {}
                     /\ \A i \in NonNull(k) : IsNumeric(ValueAt(k, i))}

RECURSIVE SumOver(_, _)
SumOver(key, S) ==
    IF S = {} THEN RZero
    ELSE LET i == CHOOSE x \in S : TRUE
         IN  RAdd(ValueAt(key, i).q, SumOver(key, S \ {i}))

MeanOver(key) ==
    RMul(SumOver(key, NonNull(key)), R(1, Cardinality(NonNull(key))))

\* C9 as stated: a non-alert key whose non-null values are all numeric
\* reduces to their arithmetic mean.
C9_NumericMean ==
    Reduced =>
       \A key \in NumericKeys : NumEq(aggregate.o[key], VFloat(MeanOver(key)))

\* C9 amended: a non-alert key whose non-null values are all numeric and not
\* all integers reduces to their arithmetic mean over the non-null values;
\* when they are all integers the result is their maximum.
C9_NumericMeanUnlessAllIntegers ==
    Reduced =>
       \A key \in NumericKeys :
          IF key \in IntegerKeys
          THEN aggregate.o[key] =
                  VInt(MaxOf({ValueAt(key, i).q[1] : i \in NonNull(key)}))
          ELSE aggregate.o[key] = VFloat(MeanOver(key))

\* [{"n": 2.5}, {"n": null}, {"n": 4}] reduced to the mean 3.25 of the two
\* non-null values.
C9_Witness ==
    /\ Reduced
    /\ bucketMetrics = <<[key \in {KeyN} |-> VFloat(R(5, 2))],
                         [key \in {KeyN} |-> VNull],
                         [key \in {KeyN} |-> VInt(4)]>>
    /\ aggregate.o[KeyN] = VFloat(R(13, 4))

ArrayKeys ==
    {k \in AllKeys : NonNull(k) # {}
                     /\ \A i \in NonNull(k) : IsNumericArray(ValueAt(k, i))}

\* The element-wise mean over the arrays as long as the first one.
ArrayMean(key) ==
    LET length == Len(FirstValue(key).a)
        same == {i \in NonNull(key) : Len(ValueAt(key, i).a) = length}
        col(j) == [i \in 1..Len(bucketMetrics) |->
                     IF i \in same THEN ValueAt(key, i).a[j] ELSE VInt(0)]
    IN  VArr([j \in 1..length |->
                VFloat(RMul(SumQ(col(j)), R(1, Cardinality(same))))])

\* C10 as stated: a key whose non-null values are all numeric arrays reduces
\* to the element-wise mean over the arrays as long as the first one.
C10_ArrayMeanAnyKey ==
    Reduced =>
       \A key \in ArrayKeys : PyEq(aggregate.o[key], ArrayMean(key))

\* C10 amended: a non-alert key whose non-null values are all numeric arrays
\* reduces to the element-wise mean over exactly the arrays as long as the
\* first one, for every combination of lengths; under a key ending in the
\* alert suffix the result is the last array.
C10_ArrayMeanNonAlertKey ==
    Reduced =>
       \A key \in ArrayKeys :
          IF EndsWithAlert(key)
          THEN aggregate.o[key] = LastValue(key)
          ELSE aggregate.o[key] = ArrayMean(key)

\* [1, 2], [3.5], [3, 4] under one key reduced to [2, 3]: the array of
\* another length is in neither sum nor count.
C10_Witness ==
    /\ Reduced
    /\ bucketMetrics = <<[key \in {KeyN} |-> VArr(<<VInt(1), VInt(2)>>)],
                         [key \in {KeyN} |-> VArr(<<VFloat(R(7, 2))>>)],
                         [key \in {KeyN} |-> VArr(<<VInt(3), VInt(4)>>)]>>
    /\ aggregate.o[KeyN] = VArr(<<VFloat(R(2, 1)), VFloat(R(3, 1))>>)

\* ---------------------------------------------------- batch-job claims

\* A bbox coordinate rounded to three decimals, as a number (minus zero
\* is zero).
Round3(value) ==
    IF value < 0 THEN 0 - (Abs(value) + 5) \div 10 ELSE (value + 5) \div 10

\* The identity of a detection: class_id and the rounded bbox.
Identity(detection) ==
    <<detection.class_id,
      [i \in 1..Len(detection.bbox) |-> Round3(detection.bbox[i])]>>

Kept == {unique[k] : k \in DOMAIN unique}

\* C11: after any sequence of update_detections calls the bucket holds
\* exactly one detection per identity (class_id, bbox rounded to three
\* decimals) seen, with the maximum confidence seen for that identity.
C11_OneDetectionPerIdentity ==
    /\ Cardinality(Kept) = Cardinality(DOMAIN unique)
    /\ \A d \in Kept : \A e \in Kept : Identity(d) = Identity(e) => d = e
    /\ {Identity(d) : d \in Kept} = {Identity(d) : d \in seen}
    /\ \A d \in Kept : \A e \in seen :
          Identity(e) = Identity(d) => e.conf <= d.conf

\* The same with the identity the code uses, the class_id and the bbox as
\* printed with three decimals: one kept detection per printed key, a seen
\* one, with the maximum confidence seen for the key.
C11_OneDetectionPerPrintedKey ==
    /\ Kept \subseteq seen
    /\ \A k \in DOMAIN unique : DetectionKey(unique[k]) = k
    /\ DOMAIN unique = {DetectionKey(d) : d \in seen}
    /\ \A k \in DOMAIN unique : \A e \in seen :
          DetectionKey(e) = k => e.conf <= unique[k].conf

\* The bucket indices of the returned groups, in order.
GroupIndices == [i \in 1..Len(upResult.groups) |-> upResult.groups[i].bucket_index]

\* C12: the number of groups returned equals the number of distinct bucket
\* indices among the processed frames, and no two groups carry the same
\* bucket_index.
C12_OneGroupPerBucketIndex ==
    upState = "returned" =>
       /\ Len(upResult.groups) =
             Cardinality({processedIdx[i] : i \in 1..Len(processedIdx)})
       /\ \A i \in 1..Len(GroupIndices) : \A j \in 1..Len(GroupIndices) :
             GroupIndices[i] = GroupIndices[j] => i = j

\* A sequence with every run of equal neighbours reduced to one element.
RECURSIVE Runs(_)
Runs(seq) ==
    IF Len(seq) <= 1 THEN seq
    ELSE IF seq[1] = seq[2] THEN Runs(Tail(seq))
    ELSE <<seq[1]>> \o Runs(Tail(seq))

\* What holds instead: one group per run of consecutive processed frames
\* with the same bucket index, the open bucket flushed once at the end.
C12_OneGroupPerRun ==
    upState = "returned" => GroupIndices = Runs(processedIdx)

\* C13: once the reported duration or a decoded timestamp was above
\* max_duration_sec the call has ended with the duration-exceeded error,
\* never with a result, and a call that raised returned nothing.
C13_DurationExceededAborts ==
    /\ exceeded => (upState = "raised" /\ upError = "overflow")
    /\ upState = "raised" => upResult = NoResult
    /\ upState = "returned" => (~exceeded /\ upResult # NoResult)

\* The error ended a call that had a finalized group and an open bucket.
C13_Witness ==
    /\ upState = "raised" /\ upError = "overflow"
    /\ groups # << >> /\ current_bucket # << >>
    /\ frame_number >= 2
    /\ upResult = NoResult

\* --------------------------------------------------- live-session claims

\* The last frame pulled from the slot (0 if none was).
LastPulled == IF pulls = << >> THEN 0 ELSE pulls[Len(pulls)].frame

\* C14: under every interleaving of reader and processing loop the slot
\* holds at most one frame, and it holds exactly the most recently received
\* frame as long as that frame has not been pulled.
C14_SlotHoldsNewestFrame ==
    /\ Len(slot) <= 1
    /\ slot = IF arrived > LastPulled THEN <<arrived>> ELSE << >>

\* The reader stored a third frame over two that were never pulled.
C14_Witness == slot = <<3>> /\ pulls = << >>

\* The pulls that passed the rate check.
Accepted == SelectSeq(pulls, LAMBDA e : e.verdict # "early")

\* C15: consecutive accepted frames are at least one target interval
\* apart, a frame pulled earlier than that is processed at no time, and
\* any k + 1 accepted frames span at least k intervals (so at most
\* floor(T * target_fps) + 1 frames are accepted in any time T).
C15_AcceptedAtTargetRate ==
    /\ \A i \in 1..Len(Accepted) : \A j \in i + 1..Len(Accepted) :
          Accepted[j].t - Accepted[i].t >= (j - i) * LiveInterval
    /\ \A i \in 1..Len(pulls) :
          pulls[i].verdict = "early" =>
             /\ pulls[i].frame \notin sentFrames
             /\ inflight # <<pulls[i].frame>>
             /\ \A j \in 1..Len(pulls) : pulls[j].frame = pulls[i].frame => j = i

\* Two frames were accepted and one pulled between them was discarded.
C15_Witness ==
    /\ Len(Accepted) = 2 /\ Len(pulls) = 3
    /\ pulls[2].verdict = "early"
    /\ Accepted[2].t - Accepted[1].t = LiveInterval

\* The frames that found the buffer above the limit.
SaturatedFrames ==
    {pulls[i].frame : i \in {j \in 1..Len(pulls) : pulls[j].over}}

\* C16: the drop counter counts exactly the accepted frames that found the
\* buffered amount above MAX_DATA_CHANNEL_BUFFER, no result is sent for any
\* of them, and the pipeline holds at most one frame in the slot and one in
\* processing, whatever the number of drops.
C16_SaturationDropsAndCounts ==
    /\ dropped_messages = Cardinality(SaturatedFrames)
    /\ SaturatedFrames \cap sentFrames = {}
    /\ \A f \in SaturatedFrames : inflight # <<f>>
    /\ Len(slot) <= 1 /\ Len(inflight) <= 1

\* C16, the counter: no step of the pipeline decreases the drop counter.
C16_DropCounterMonotone == [][dropped_messages' >= dropped_messages]_vars

\* Two frames in a row were dropped on a saturated channel.
C16_Witness ==
    /\ dropped_messages = 2 /\ sentFrames = {}
    /\ Len(pulls) = 2 /\ pulls[1].over /\ pulls[2].over

\* C17: whenever process_video_frames has completed, whatever made it
\* leave its loop, the reader task has finished (or was never created).
C17_ReaderEndsBeforeProcessing ==
    procState = "done" =>
       /\ readerState \in {"none", "done"}
       /\ readerState = "none" => (exitReason = "cancelled" /\ arrived = 0)
       /\ exitReason # "none"

\* The processing task was cancelled while frames were flowing, and its
\* reader was cancelled and joined.
C17_Witness ==
    /\ procState = "done" /\ exitReason = "cancelled"
    /\ readerState = "done" /\ readerCancel
    /\ arrived = 2 /\ ~stopSet

\* The frames handed to the executor, in order.
Handed == SelectSeq(pulls, LAMBDA e : e.verdict = "handed")

\* C19: every pulled frame is the newest frame received at the moment of
\* the pull, the pulled frames (so the processed ones) are in strictly
\* increasing arrival order, none twice.
C19_ProcessedInArrivalOrder ==
    /\ \A i \in 1..Len(pulls) : pulls[i].frame = pulls[i].latest
    /\ \A i \in 1..Len(pulls) : \A j \in i + 1..Len(pulls) :
          pulls[i].frame < pulls[j].frame
    /\ \A f \in sentFrames : \E i \in 1..Len(Handed) : Handed[i].frame = f
    /\ inflight # << >> => inflight = <<Handed[Len(Handed)].frame>>

\* While frame 1 was in the executor frames 2 and 3 arrived; the next pull
\* took frame 3.
C19_Witness ==
    /\ Len(Handed) = 2
    /\ Handed[1].frame = 1 /\ Handed[2].frame = 3
    /\ 1 \in sentFrames

\* ---------------------------------------------------- session claims

\* C18: the expiry task closes a websocket only when nothing closed it
\* before: every close(code=4000) of the timer is the first close called on
\* its websocket, also when the manager was shut down first.
C18_TimerNeverClosesAfterTeardown ==
    \A ws \in DOMAIN wsCloses : \A i \in 1..Len(wsCloses[ws]) :
        wsCloses[ws][i] = "timer" => i = 1

\* C18, the part that holds: the timer calls close at most once, on the
\* websocket of its own session, when that session is registered with the
\* start time the timer was given and SESSION_TTL_SEC or more have passed
\* since; a replaced or disconnected session is never closed by it.
C18_TimerClosesOwnRegisteredSession ==
    [][\A ws \in DOMAIN wsCloses :
          wsCloses'[ws] = Append(wsCloses[ws], "timer") =>
             /\ "timer" \notin {wsCloses[ws][i] : i \in 1..Len(wsCloses[ws])}
             /\ timers[ws].state = "sleeping" /\ timers'[ws].state = "done"
             /\ active_connections[timers[ws].client] = ws
             /\ session_started_at[timers[ws].client] = timers[ws].started_at
             /\ session_expiry_tasks[timers[ws].client] = ws
             /\ sessNow - timers[ws].started_at >= SESSION_TTL_SEC]_vars

\* C18, the part that holds: as long as close() has not been called no
\* websocket is closed twice.
C18_NoDoubleCloseBeforeShutdown ==
    closeState = "idle" =>
       \A ws \in DOMAIN wsCloses : wsCloses[ws] \in {<< >>, <<"timer">>}

\* The entries of one client id in the nine registries.
RegistriesOf(c) ==
    <<active_connections[c], c \in peer_connections, c \in data_channels,
      frame_tasks[c], c \in processing_paused, c \in processing_reset,
      session_started_at[c], session_expiry_tasks[c],
      c \in head_pose_recalibrate_requests>>

Absent == <<0, FALSE, FALSE, 0, FALSE, FALSE, -1, 0, FALSE>>

\* C20: a disconnect of client id c leaves c in none of the nine
\* registries and its frame task not running, changes no entry, frame task
\* or expiry task of any other client, and changes nothing at all when c
\* was in no registry already.
C20_DisconnectRemovesOnlyThatClient ==
    [][\A c \in Clients :
          lastOp' = Op("disconnect", c) =>
             /\ RegistriesOf(c)' = Absent
             /\ frame_tasks[c] # 0 => taskState'[frame_tasks[c]] # "running"
             /\ \A d \in Clients \ {c} : RegistriesOf(d)' = RegistriesOf(d)
             /\ \A t \in DOMAIN taskState :
                   t # frame_tasks[c] => taskState'[t] = taskState[t]
             /\ \A s \in DOMAIN timers :
                   s # session_expiry_tasks[c] => timers'[s] = timers[s]
             /\ RegistriesOf(c) = Absent =>
                   /\ taskState' = taskState /\ timers' = timers
                   /\ wsCloses' = wsCloses]_vars

\* The client c1, registered everywhere and with a running frame task, was
\* disconnected while c2 was registered everywhere with a running task.
C20_Witness ==
    /\ lastOp = Op("disconnect", "c1")
    /\ RegistriesOf("c1") = Absent
    /\ \E t \in DOMAIN taskState :
          taskOwner[t] = "c1" /\ taskState[t] = "cancelled"
    /\ \E s \in DOMAIN timers : timers[s].state = "cancelled"
    /\ active_connections["c2"] # 0 /\ frame_tasks["c2"] # 0
    /\ taskState[frame_tasks["c2"]] = "running"
    /\ timers[session_expiry_tasks["c2"]].state = "sleeping"
    /\ "c2" \in peer_connections \cap data_channels
                \cap head_pose_recalibrate_requests

\* ------------------------------------------- detector claims, continued

\* Whether axis i of the angles deviates from the baseline by more than the
\* threshold of that axis.
Deviates(angles, baseline, i) ==
    RLt(HeadThreshold[i], RAbs(RSub(angles[i], baseline[i])))

\* C21: on every valid frame once a baseline exists, each axis counter is
\* its previous value plus one when that axis deviates by more than its own
\* threshold and 0 when it does not; the axis alert is true exactly when
\* the counter has reached min_sustained_frames, is false on the first
\* valid frame back under the threshold, and depends on no other axis.
C21_AxisDebounce ==
    (Updated("head") /\ inp.k = "val" /\ ~out.calibrating) =>
       \A i \in Axes :
          LET dev == Deviates(inp.a, det.baseline, i)
          IN  /\ det.counter[i] = IF dev THEN pre.counter[i] + 1 ELSE 0
              /\ det.state[i] = (det.counter[i] >= MinSustainedFrames)
              /\ out.alert[i] = det.state[i]
              /\ ~dev => ~det.state[i]

\* The yaw alert is cleared by the first frame back under its threshold,
\* the same frame on which pitch starts to deviate without an alert.
C21_Witness ==
    /\ Updated("head") /\ inp.k = "val" /\ ~out.calibrating
    /\ pre.state[1] /\ ~det.state[1] /\ det.counter[1] = 0
    /\ det.counter[2] = 1 /\ ~det.state[2]

\* C22: a frame without a face that completes missing_reset_frames
\* consecutive ones discards baseline, calibration sums and count, counters
\* and alerts, and a baseline exists again only after calibration_frames
\* further valid frames; a frame without a face that does not complete the
\* run changes nothing but the streak; a frame with a face zeroes the streak.
C22_MissingFaceRestartsCalibration ==
    /\ Updated("head") =>
          IF inp.k = "none"
          THEN IF pre.missing_frames + 1 >= MissingResetFrames
               THEN det = HeadInit /\ out.calibrating
               ELSE det = [pre EXCEPT !.missing_frames = pre.missing_frames + 1]
          ELSE det.missing_frames = 0
    /\ (unit = "head" /\ ~IsNone(det.baseline[1]))
          => valid >= CalibrationFrames

\* A calibrated instance with a running axis counter loses its baseline on
\* the frame that completes the run of frames without a face.
C22_Witness ==
    /\ Updated("head") /\ inp.k = "none"
    /\ pre.missing_frames = MissingResetFrames - 1
    /\ ~IsNone(pre.baseline[1]) /\ pre.counter # <<0, 0, 0>>
    /\ det = HeadInit

\* A ratio that exists and lies outside the horizontal or the vertical
\* range.
OutOfRange(ratio) ==
    /\ HasRatio(ratio)
    /\ \/ RLt(ratio[1], horizontal_range[1]) \/ RLt(horizontal_range[2], ratio[1])
       \/ RLt(ratio[2], vertical_range[1]) \/ RLt(vertical_range[2], ratio[2])

\* The smoothed ratios the last update worked with.
LeftRatio == inp.l
RightRatio == inp.r

\* C23: on a frame with landmarks the off-range counter grows only when an
\* eye that has a computable ratio is outside the horizontal or vertical
\* range, whichever eyes are computable (both, one or none).
C23_OffRangeOnlyFromComputableEye ==
    (Updated("gaze") /\ inp.k = "val"
     /\ det.sustained_out_of_range_frames > pre.sustained_out_of_range_frames)
        => (OutOfRange(LeftRatio) \/ OutOfRange(RightRatio))

\* C23, the part that holds: with at least one computable eye the frame is
\* off range exactly when a computable eye is out of range (the other eye,
\* if it has no ratio, plays no part); gaze_metric.py decides the same way
\* on the raw ratios and gives no result when neither eye has a ratio.
C23_MissingEyeIsNeutral ==
    (Updated("gaze") /\ inp.k = "val") =>
       /\ (HasRatio(inp.l) \/ HasRatio(inp.r)) =>
             ((det.sustained_out_of_range_frames # 0)
                 <=> (OutOfRange(LeftRatio) \/ OutOfRange(RightRatio)))
       /\ GazeMetricOnRoad(inp.l, inp.r) =
             IF ~HasRatio(inp.l) /\ ~HasRatio(inp.r) THEN "none"
             ELSE IF OutOfRange(inp.l) \/ OutOfRange(inp.r) THEN "false"
             ELSE "true"

\* What gaze.py counts as an off-range frame.
OffRange ==
    \/ ~HasRatio(inp.l) /\ ~HasRatio(inp.r)
    \/ OutOfRange(LeftRatio) \/ OutOfRange(RightRatio)

QualifyingDetection ==
    \E i \in 1..Len(inp.d) :
        /\ inp.d[i].class_id = PHONE_CLASS_ID
        /\ ~RLt(inp.d[i].conf, PhoneConf)

\* C25: a frame with a qualifying phone detection adds one to the usage
\* counter up to min_usage_frames and zeroes the miss counter; a frame
\* without one adds one to the miss counter and leaves usage and alert as
\* they were, except on the frame where the miss counter would exceed
\* max_missed_frames, which zeroes usage, alert and miss counter; the alert
\* is set whenever usage has reached min_usage_frames and otherwise kept;
\* both counters stay within their limits.
C25_PhoneUsageCounters ==
    Updated("phone") =>
       /\ IF QualifyingDetection
          THEN /\ det.usage = IF pre.usage < MinUsageFrames
                              THEN pre.usage + 1 ELSE MinUsageFrames
               /\ det.miss = 0
               /\ det.active = (pre.active \/ det.usage = MinUsageFrames)
          ELSE IF pre.miss = MaxMissedFrames
          THEN det.usage = 0 /\ det.miss = 0 /\ ~det.active
          ELSE /\ det.miss = pre.miss + 1
               /\ det.usage = pre.usage
               /\ det.active = pre.active
       /\ det.usage \in 0..MinUsageFrames
       /\ det.miss \in 0..MaxMissedFrames
       /\ out.phone_usage = det.active

\* The last frame of the longest allowed gap: no phone, the miss counter
\* reaches max_missed_frames, and the full usage count and the latched
\* alert are still there.
C25_Witness ==
    /\ Updated("phone") /\ ~QualifyingDetection
    /\ MaxMissedFrames > 0 /\ det.miss = MaxMissedFrames
    /\ pre.active /\ det.active /\ det.usage = MinUsageFrames

\* C26: an eye-closure or yawn update on a frame without landmarks reports
\* no measurement and the alert flag as it was, and leaves the
\* consecutive-frame counter, the alert flag, the yawn event count, the
\* PERCLOS history (and with it the reported PERCLOS) and the smoother as
\* they were; holding on every such frame, it holds for any run of them.
C26_MissingLandmarksHoldState ==
    (op = "update" /\ inp.k = "none") =>
       /\ unit = "eye" =>
             /\ det = pre
             /\ IsNone(out.ear)
             /\ out.eye_closed = pre.closed
             /\ out.perclos = Perclos(pre.history)
             /\ out.eye_closed_sustained = EyeSustained(pre)
       /\ unit = "yawn" =>
             /\ det.dur = pre.dur /\ det.active = pre.active
             /\ det.events = pre.events /\ det.sm = pre.sm
             /\ IsNone(out.mar)
             /\ out.yawning = pre.active
             /\ out.yawn_count = pre.events
             /\ out.yawn_sustained = YawnSustained(pre)

\* A frame without landmarks met an eye-closure detector whose alert was
\* raised and whose history was not empty.
C26_Witness ==
    /\ Updated("eye") /\ inp.k = "none"
    /\ pre.closed /\ out.eye_closed
    /\ pre.dur >= MinEyeFrames /\ Len(pre.history) > 0

\* C27: a frame whose landmarks are too few or degenerate for the eyes
\* reports no EAR and the previous alert, and leaves the closed-frame
\* counter, the alert flag and the PERCLOS history of EyeClosureMetric as
\* they were.
C27_DegenerateFrameNotCounted ==
    (Updated("eye") /\ inp.k = "deg") =>
       /\ IsNone(out.ear)
       /\ out.eye_closed = pre.closed
       /\ det.dur = pre.dur /\ det.closed = pre.closed
       /\ det.history = pre.history

\* C27, the part that holds: a frame whose measurement computation raises
\* (for head pose: fewer than 468 landmarks) reports no measurement and the
\* previous alerts, and leaves counters, flags, history, calibration and
\* smoother as they were; head pose only zeroes its missing-face streak.
C27_FailedComputationHoldsState ==
    (op = "update" /\ inp.k = "bad") =>
       /\ unit = "eye" =>
             det = pre /\ IsNone(out.ear) /\ out.eye_closed = pre.closed
       /\ unit = "yawn" =>
             /\ det = [pre EXCEPT !.frames_processed = @ + 1]
             /\ IsNone(out.mar) /\ out.yawning = pre.active
             /\ out.yawn_count = pre.events
       /\ unit = "head" =>
             /\ det = [pre EXCEPT !.missing_frames = 0]
             /\ out.angles = NoAngles /\ out.rel = NoAngles
             /\ out.alert = pre.state
             /\ out.calibrating = (pre.baseline = NoAngles)

\* The last min(Len(q), n) elements of q.
LastOf(q, n) ==
    IF Len(q) <= n THEN q ELSE SubSeq(q, Len(q) - n + 1, Len(q))

RECURSIVE NonEmpty(_)
NonEmpty(q) ==
    IF q = << >> THEN << >>
    ELSE IF Head(q) = << >> THEN NonEmpty(Tail(q))
    ELSE <<Head(q)>> \o NonEmpty(Tail(q))

\* Those of q that have n elements.
RECURSIVE OfLength(_, _)
OfLength(q, n) ==
    IF q = << >> THEN << >>
    ELSE IF Len(Head(q)) = n THEN <<Head(q)>> \o OfLength(Tail(q), n)
    ELSE OfLength(Tail(q), n)

\* Where the trailing run of vectors as long as the last one begins.
RECURSIVE RunStart(_, _)
RunStart(q, i) ==
    IF i > 1 /\ Len(q[i - 1]) = Len(q[Len(q)]) THEN RunStart(q, i - 1) ELSE i

\* The element-wise sum of a non-empty sequence of equally long vectors.
RECURSIVE VectorSum(_)
VectorSum(q) ==
    IF Len(q) = 1 THEN q[1]
    ELSE [i \in 1..Len(q[1]) |-> q[1][i] + VectorSum(Tail(q))[i]]

Average(q) == [i \in 1..Len(q[1]) |-> R(VectorSum(q)[i], Len(q))]

FirstLength(q) == OfLength(q, Len(q[1]))
LastRun(q) == SubSeq(q, RunStart(q, Len(q)), Len(q))

C29_AverageSinceLastLengthChange ==
    IF NonEmpty(lmSeen) = << >>
    THEN /\ landmarks_sum = NoSum /\ landmarks_count = 0
         /\ lmFinalized => face_landmarks = NoSum
    ELSE /\ landmarks_sum = SumOf(VectorSum(LastRun(NonEmpty(lmSeen))))
         /\ landmarks_count = Len(LastRun(NonEmpty(lmSeen)))
         /\ lmFinalized =>
               face_landmarks = SumOf(Average(LastRun(NonEmpty(lmSeen))))

\* ----------------------------------------------------------- smoother claims

\* C30: the smoother of a yawn detector, called with the frame's raw value:
\* an absent input makes the streak of absent inputs one longer and, while
\* the streak is at most max_missing, returns the stored smoothed value and
\* keeps it, and otherwise clears the stored value and returns absent; a
\* present input sets the streak to 0, becomes the stored value, and is
\* returned as it is when nothing is stored (after construction, reset()
\* or a clearing gap); reset() leaves nothing stored and a streak of 0.
C30_SmootherGaps ==
    /\ (Updated("yawn") /\ inp.k = "val") =>
          IF IsNone(inp.v)
          THEN /\ det.sm.missing = pre.sm.missing + 1
               /\ IF det.sm.missing <= DetectorMaxMissing
                  THEN out.mar = pre.sm.last /\ det.sm.last = pre.sm.last
                  ELSE IsNone(out.mar) /\ IsNone(det.sm.last)
          ELSE /\ det.sm.missing = 0
               /\ det.sm.last = out.mar
               /\ IsNone(pre.sm.last) => out.mar = inp.v
    /\ (unit = "yawn" /\ op = "reset") =>
          IsNone(det.sm.last) /\ det.sm.missing = 0
    /\ (unit = "yawn" /\ op = "init") =>
          IsNone(det.sm.last) /\ det.sm.missing = 0

\* A present input arrives after a gap that cleared a stored value (the
\* detector's raised alert shows there was one) and is returned unchanged.
C30_Witness ==
    /\ Updated("yawn") /\ inp.k = "val" /\ ~IsNone(inp.v)
    /\ pre.active
    /\ IsNone(pre.sm.last) /\ pre.sm.missing > DetectorMaxMissing
    /\ out.mar = inp.v /\ det.sm.missing = 0

\* -------------------------------------------------- vector smoother claims

\* The last call was an update with a present sequence whose length is not
\* that of the stored one.
LengthMismatch ==
    /\ vsOut.k \in {"return", "IndexError"}
    /\ ~vsIn.none /\ ~vsPre.last_value.none
    /\ Len(vsIn.v) # Len(vsPre.last_value.v)

\* C31: an update with a present sequence longer or shorter than the stored
\* one is a fresh start: it does not raise, returns the new sequence
\* unchanged and stores it.
C31_LengthMismatchIsFreshStart ==
    LengthMismatch =>
       /\ vsOut = [k |-> "return", v |-> Vector(FloatList(vsIn.v))]
       /\ vsState.last_value = Vector(FloatList(vsIn.v))

\* C31, what the code does: a longer sequence raises IndexError and leaves
\* the stored sequence (the missing count is already 0); a shorter one is
\* blended element by element with the beginning of the stored sequence and
\* the result, as long as the new sequence, is stored and returned.
C31_MismatchRaisesOrBlends ==
    LengthMismatch =>
       IF Len(vsIn.v) > Len(vsPre.last_value.v)
       THEN /\ vsOut.k = "IndexError"
            /\ vsState = [vsPre EXCEPT !.missing_count = 0]
       ELSE /\ vsOut.k = "return" /\ vsOut.v = vsState.last_value
            /\ Len(vsOut.v.v) = Len(vsIn.v)
            /\ \A i \in 1..Len(vsIn.v) :
                  vsOut.v.v[i] =
                     RAdd(RMul(VecAlpha, R(vsIn.v[i], 1)),
                          RMul(RSub(ROne, VecAlpha),
                               vsPre.last_value.v[i]))

\* ================================================ session control claims

\* The last operation was a pass that pulled a frame and let it through the
\* pacing check.
AcceptedPass == ctlOp.op = "pass" /\ ctlOp.verdict \notin {"timeout", "early"}

\* C32: a pass that finds the paused flag set hands no frame to the
\* detectors, changes neither the detectors nor the smoother nor the
\* processed count, and sets last_process_time to the time of the pass if
\* the frame was accepted; no frame pulled while the flag was set is ever
\* handed to the detectors; and any two frames let through the pacing check,
\* before, during or after a pause, are at least the target interval apart.
C32_PausedSessionDropsFrames ==
    /\ (ctlOp.op = "pass" /\ ctlOp.paused) =>
          /\ ctlOp.verdict \in {"timeout", "early", "empty", "paused"}
          /\ ctlState # "executor"
          /\ sess.metric_manager = ctlOp.pre.metric_manager \/ ctlOp.reset
          /\ sess.smoother = ctlOp.pre.smoother \/ ctlOp.reset
          /\ sess.processed_frames = ctlOp.pre.processed_frames \/ ctlOp.reset
          /\ AcceptedPass => sess.last_process_time = ctlNow
    /\ pausedPulls \cap handedFrames = {}
    /\ \A i, j \in 1..Len(acceptTimes) :
          i < j => acceptTimes[j] - acceptTimes[i] >= LiveInterval

\* A frame was dropped by a paused session and, the flag cleared, a later
\* frame produced a result.
C32_Witness ==
    /\ pausedPulls # {}
    /\ ~pausedFlag
    /\ lastResult.frame # 0
    /\ \E f \in pausedPulls : f < lastResult.frame


\* The last operation was a pass that went through the reset check with a
\* reset requested.
ResetConsumed == ctlOp.op = "pass" /\ ctlOp.reset /\ ReachedReset(ctlOp.verdict)

\* A pass that goes through the reset check with a reset requested leaves
\* new detectors (the head pose baseline aside, which a recalibration in
\* the same pass discards once more), a new smoother, the frame counter at
\* this frame, no processed frame, the start time at the time of the pass
\* and the flag cleared, all before the executor is called; a pass without
\* the flag reinitialises nothing.
ReinitialisedOncePerRequest ==
    /\ ResetConsumed =>
          /\ sess.metric_manager = NewManager
          /\ sess.smoother = << >>
          /\ sess.frame_count = 1
          /\ sess.processed_frames = 0
          /\ sess.start_time = ctlNow
          /\ sess.last_process_time = ctlNow
          /\ ~resetFlag
    /\ (ctlOp.op = "pass" /\ ~ctlOp.reset /\ ReachedReset(ctlOp.verdict)) =>
          /\ sess.metric_manager.frames = ctlOp.pre.metric_manager.frames
          /\ sess.smoother = ctlOp.pre.smoother
          /\ sess.frame_count = ctlOp.pre.frame_count + 1
          /\ sess.processed_frames = ctlOp.pre.processed_frames
          /\ sess.start_time = ctlOp.pre.start_time
    /\ (ctlOp.op = "pass" /\ ~ReachedReset(ctlOp.verdict)) =>
          /\ resetFlag = ctlOp.reset
          /\ sess.metric_manager = ctlOp.pre.metric_manager
          /\ sess.smoother = ctlOp.pre.smoother
          /\ sess.frame_count = ctlOp.pre.frame_count

\* The results sent since the last reset are those of the new session.
SameResults ==
    (newborn.on /\ lastResult.frame = twinResult.frame) =>
        lastResult = twinResult

\* C33 (as stated): a reset request is consumed by the next pass that gets
\* past the pacing and empty-frame checks, which reinitialises the session
\* once, and from then on the session does with every frame what a session
\* started new at that pass does with it.
C33_ResetSessionIsNewSession ==
    /\ ReinitialisedOncePerRequest
    /\ SameResults
    /\ (newborn.on /\ ctlOp.op = "pass") => ctlOp.verdict = ctlOp.twinVerdict

\* C33 (amended): as stated, except that the retry count of the data
\* channel and the count of dropped messages are carried over the reset:
\* the session may stop for exhausted retries at a frame for which a new
\* session would only count a retry. Up to that point it does with every
\* frame what the new session does, and its counters, detectors and
\* smoother are those of the new session.
C33_ResetSessionButForRetries ==
    /\ ReinitialisedOncePerRequest
    /\ SameResults
    /\ (newborn.on /\ ctlOp.op = "pass") =>
          \/ ctlOp.verdict = ctlOp.twinVerdict
          \/ ctlOp.verdict = "retries" /\ ctlOp.twinVerdict = "retry"
    /\ newborn.on =>
          /\ sess.metric_manager = newborn.s.metric_manager
          /\ sess.smoother = newborn.s.smoother
          /\ sess.frame_count = newborn.s.frame_count
          /\ sess.processed_frames = newborn.s.processed_frames
          /\ sess.start_time = newborn.s.start_time
          /\ sess.last_process_time = newborn.s.last_process_time
          /\ sess.data_channel_retries >= newborn.s.data_channel_retries
          /\ sess.dropped_messages >= newborn.s.dropped_messages

\* A session that had counted a frame was reset and then sent the result of
\* a later frame, the same result as the new session.
C33_Witness ==
    /\ newborn.on
    /\ lastResult.frame = ctlPulled
    /\ twinResult = lastResult
    /\ sess.frame_count < ctlPulled
    /\ sess.processed_frames = 1


\* C34 (as stated): whatever a pass meets, a reset or recalibration request
\* pending when it begins is consumed by it.
C34_EveryPassConsumesRequests ==
    ctlOp.op = "pass" =>
        /\ ~resetFlag
        /\ SessionClient \notin head_pose_recalibrate_requests

\* C34 (amended): a pending reset request is consumed by exactly the passes
\* that pull a non-empty frame past the pacing check, paused or not and
\* whatever the state of the channel; a pending recalibration request is
\* consumed by exactly the passes that hand their frame to the detectors,
\* that is, with the session not paused and the channel open and below its
\* buffer ceiling. Any other pass leaves the request pending.
C34_RequestsConsumedByAcceptedFrames ==
    ctlOp.op = "pass" =>
        /\ resetFlag =
              (ctlOp.reset /\ ctlOp.verdict \in {"timeout", "early", "empty"})
        /\ head_pose_recalibrate_requests =
              IF ctlOp.verdict = "handed"
              THEN ctlOp.requests \ {SessionClient} ELSE ctlOp.requests
        /\ ctlOp.verdict = "handed" => ~ctlOp.paused

\* A pass of a paused session consumed the reset request and left the
\* recalibration request pending.
C34_Witness ==
    /\ ctlOp.op = "pass"
    /\ ctlOp.paused
    /\ ctlOp.reset
    /\ ~resetFlag
    /\ SessionClient \in ctlOp.requests
    /\ SessionClient \in head_pose_recalibrate_requests


\* What the last operation did to the recalibration requests and, for a
\* pass, to the detectors: only a pass that hands its frame over consumes,
\* and only the request of the session's own client; it discards the head
\* pose baseline if and only if that request was pending, and touches
\* neither the other detectors nor the smoother (a reset in the same pass
\* aside); a disconnect drops the request of the client it is for and no
\* other.
RecalibrationConsumed ==
    /\ (ctlOp.op = "pass" /\ ctlOp.verdict = "handed") =>
          /\ head_pose_recalibrate_requests =
                ctlOp.requests \ {SessionClient}
          /\ sess.metric_manager.head =
                IF SessionClient \in ctlOp.requests \/ ctlOp.reset
                THEN << >> ELSE ctlOp.pre.metric_manager.head
          /\ sess.metric_manager.frames =
                IF ctlOp.reset THEN << >>
                ELSE ctlOp.pre.metric_manager.frames
          /\ sess.smoother =
                IF ctlOp.reset THEN << >> ELSE ctlOp.pre.smoother
          /\ sess.processed_frames =
                IF ctlOp.reset THEN 0 ELSE ctlOp.pre.processed_frames
    /\ (ctlOp.op = "pass" /\ ctlOp.verdict # "handed") =>
          /\ head_pose_recalibrate_requests = ctlOp.requests
          /\ sess.metric_manager.head =
                IF ctlOp.reset /\ ReachedReset(ctlOp.verdict)
                THEN << >> ELSE ctlOp.pre.metric_manager.head
    /\ ctlOp.op = "disconnect" =>
          head_pose_recalibrate_requests = ctlOp.requests \ {ctlOp.client}
    /\ ctlOp.op = "request" =>
          ctlOp.client \in head_pose_recalibrate_requests

\* C35: a recalibration request is consumed at most once: however many
\* times it was requested, the first pass that hands a frame over finds it,
\* removes it and discards only the head pose baseline; a client's request
\* becomes pending again only by a new request of that client, so later
\* passes find none until then; the requests of other clients stay, and a
\* disconnect drops the pending request of its client.
C35_RecalibrationConsumedOnce ==
    [][/\ RecalibrationConsumed'
       /\ \A c \in Clients :
             (c \notin head_pose_recalibrate_requests
              /\ c \in head_pose_recalibrate_requests')
                => ctlOp' = NoPass("request", c)]_vars

\* A pass consumed the request of the session's client while that of the
\* other client stayed pending, and sent the head pose detector, which had
\* seen a frame, back to calibrating; the other detectors keep their frame.
C35_Witness ==
    /\ ctlOp.op = "pass"
    /\ ctlOp.verdict = "handed"
    /\ SessionClient \in ctlOp.requests
    /\ head_pose_recalibrate_requests = Clients \ {SessionClient}
    /\ ctlOp.pre.metric_manager.head # << >>
    /\ sess.metric_manager.head = << >>
    /\ sess.metric_manager.frames # << >>


\* C36: a pass whose frame gets to the channel check and finds the channel
\* absent or not open counts one retry and drops the frame; the session
\* ends there exactly when the count is then above MAX_DATA_CHANNEL_RETRIES;
\* a pass that finds the channel open sets the count to 0; a pass that does
\* not get to the channel check leaves the count alone. The count is thus
\* the number of observations of a closed channel since the last open one,
\* and the session ends at observation MAX_DATA_CHANNEL_RETRIES + 1.
C36_ChannelRetries ==
    /\ ctlOp.op = "pass" =>
          /\ ctlOp.verdict \in {"retry", "retries"} =>
                /\ sess.data_channel_retries =
                      ctlOp.pre.data_channel_retries + 1
                /\ ctlOp.frame \notin handedFrames
                /\ (ctlOp.verdict = "retries") =
                      (sess.data_channel_retries > MaxRetries)
                /\ (ctlState = "ended") = (ctlOp.verdict = "retries")
          /\ ctlOp.verdict \in {"saturated", "handed"} =>
                sess.data_channel_retries = 0
          /\ ctlOp.verdict \in {"timeout", "early", "empty", "paused"} =>
                sess.data_channel_retries = ctlOp.pre.data_channel_retries
    /\ sess.data_channel_retries <= MaxRetries + 1
    /\ sess.data_channel_retries = MaxRetries + 1 => ctlState = "ended"

\* The session ended on the observation after the limit was reached.
C36_Witness ==
    /\ ctlOp.op = "pass"
    /\ ctlOp.verdict = "retries"
    /\ ctlOp.pre.data_channel_retries = MaxRetries
    /\ ctlState = "ended"

\* =========================================== inference provider claims

\* C37 (holding part): a lock has one holder, so at most one thread is
\* inside detect_for_video and at most one inside session.run; a thread is
\* inside only while it holds the lock and the closer does not; session.run
\* is entered only on a session that is still there, never after a close()
\* has returned.
C37_OneThreadInsideInference ==
    /\ \A t, u \in Workers :
          (worker[t] = "face_in" /\ worker[u] = "face_in") => t = u
    /\ \A t, u \in Workers :
          (worker[t] = "obj_in" /\ worker[u] = "obj_in") => t = u
    /\ \A t \in Workers : worker[t] = "face_in" => faceLock = t
    /\ \A t \in Workers :
          worker[t] = "obj_in" => (objLock = t /\ session = "session")
    /\ ~ranAfterClose

\* C37: a detect() of the object detector either runs the session, before
\* close() releases it, or fails with "has been closed".
C37_DetectRunsOrFailsClosed ==
    \A t \in Workers : objResult[t] \in {"none", "detections", "has been closed"}

\* A thread ran the session while the other found the detector closed.
C37_Witness ==
    \E t, u \in Workers :
        objResult[t] = "detections" /\ objResult[u] = "has been closed"

\* ================================================== ended track claims

\* C38: once the track has ended, the processing loop is eventually left
\* and its teardown run, with no stop, disconnect or cancellation from
\* outside.
C38_EndedTrackEndsSession == trackEnded ~> procState = "done"

\* The reader never passes a failure of recv() on: while the loop has not
\* been left, the reader is at recv(), asleep or about to call recv() again,
\* and the ended track alone gives the loop no reason to exit.
C38_ReaderKeepsRetrying ==
    (trackEnded /\ exitReason = "none" /\ procState # "start") =>
        readerState \in {"start", "recv", "sleep"}

\* ================================================ alert and counter claims

\* A sustained ratio that lies in [0, 1] and is 1 exactly when alert holds.
RatioMatches(ratio, alert) ==
    /\ RLe(RZero, ratio)
    /\ RLe(ratio, ROne)
    /\ RLe(ROne, ratio) = alert

\* C39: after every update() and reset() of a detector its alert flag is
\* true exactly when its consecutive-frame counter is at or above its
\* minimum (for head pose: axis by axis), and the sustained ratio an update
\* reports lies in [0, 1] and is 1 exactly when the alert (for head pose:
\* of some axis) is on.
C39_AlertIffCounterAtMinimum ==
    op \in {"update", "reset"} =>
        CASE unit = "eye" ->
                /\ det.closed = (det.dur >= MinEyeFrames)
                /\ op = "update" =>
                      RatioMatches(out.eye_closed_sustained, out.eye_closed)
          [] unit = "yawn" ->
                /\ det.active = (det.dur >= MinYawnFrames)
                /\ op = "update" =>
                      RatioMatches(out.yawn_sustained, out.yawning)
          [] unit = "head" ->
                /\ \A i \in Axes :
                      det.state[i] = (det.counter[i] >= MinSustainedFrames)
                /\ op = "update" =>
                      RatioMatches(out.head_pose_sustained,
                                   \E i \in Axes : out.alert[i])
          [] unit = "phone" ->
                /\ det.active = (det.usage >= MinUsageFrames)
                /\ op = "update" =>
                      RatioMatches(out.phone_usage_sustained, out.phone_usage)
          [] unit = "gaze" ->
                /\ det.gaze_alert_state =
                      (det.sustained_out_of_range_frames >= MinGazeFrames)
                /\ op = "update" =>
                      RatioMatches(out.gaze_sustained, out.gaze_alert)

\* A head pose update left one axis in alert, at its minimum count, and
\* another axis below it without alert, with a sustained ratio of 1.
C39_Witness ==
    /\ unit = "head"
    /\ op = "update"
    /\ \E i, j \in Axes :
          /\ det.state[i] /\ det.counter[i] >= MinSustainedFrames
          /\ ~det.state[j] /\ det.counter[j] < MinSustainedFrames
    /\ out.head_pose_sustained = ROne

\* ================================================ uploaded video claims

RECURSIVE FrameCountSum(_)
\* The sum of the frame_count of the groups g.
FrameCountSum(g) ==
    IF g = << >> THEN 0 ELSE Head(g).frame_count + FrameCountSum(Tail(g))

\* Every returned group holds at least one frame and spans the interval of
\* its bucket index.
GroupsWellFormed ==
    upResult # NoResult =>
        \A i \in 1..Len(upResult.groups) :
            /\ upResult.groups[i].frame_count >= 1
            /\ upResult.groups[i].start_sec =
                  upResult.groups[i].bucket_index * GroupInterval
            /\ upResult.groups[i].end_sec =
                  upResult.groups[i].start_sec + GroupInterval

\* C40: in every returned result the groups are well formed and their
\* frame counts add up to metadata.total_frames_processed, also when the
\* processing of a frame raised and the partial result is returned.
C40_FrameCountsAddUp ==
    /\ GroupsWellFormed
    /\ upResult # NoResult =>
          FrameCountSum(upResult.groups) = upResult.total_frames_processed

\* The groups are well formed in every result, and the total is the sum of
\* their frame counts or, when a frame was selected and its processing
\* raised, one more.
C40_TotalCountsTheFailedFrame ==
    /\ GroupsWellFormed
    /\ upResult # NoResult =>
          /\ FrameCountSum(upResult.groups) <= upResult.total_frames_processed
          /\ upResult.total_frames_processed
                <= FrameCountSum(upResult.groups) + 1

====
